---------------------------- MODULE Spec2Model ----------------------------
(***************************************************************************)
(* A model of the AISQLAGENT core: the allowlist engine                    *)
(* (src/src/services/allowlist.service.ts) and the protocol client         *)
(* (src/src/services/websocket.service.ts).                                *)
(*                                                                         *)
(* Text is a sequence of one-character strings.  SHA-256 is modelled as a  *)
(* collision-free function of the text it digests, and a signature as the  *)
(* pair (signing key, signed bytes): verification succeeds exactly for the *)
(* bytes that were signed, under the key of the provisioned certificate.   *)
(***************************************************************************)
EXTENDS Integers, Sequences, FiniteSets, TLC

VARIABLES
  config,                 \* AppConfig handed to the WebSocketService constructor
  catalog,                \* AllowlistService.catalog
  templateHashMap,        \* AllowlistService.templateHashMap (hash -> toolId)
  expiresAt,              \* AllowlistService.expiresAt
  now,                    \* the wall clock read by new Date() / Date.now()
  socks,                  \* readyState of every WebSocket object still alive
  socket,                 \* WebSocketService.socket (0 is null)
  reconnectAttempts,      \* WebSocketService.reconnectAttempts
  reconnectTimers,        \* delays of the pending setTimeout(connect) timers
  hbTimers,               \* number of live heartbeat setInterval timers
  heartbeatInterval,      \* WebSocketService.heartbeatInterval is non-null
  refreshTimers,          \* number of live catalog refresh setInterval timers
  catalogRefreshInterval, \* WebSocketService.catalogRefreshInterval is non-null
  isConnectedFlag,        \* WebSocketService._isConnected
  reqs,                   \* inbound requests: what became of each envelope
  started,                \* index.ts start() has run its listen callback
  syncs,                  \* syncProjectData calls still running, by stage
  everAccepted,           \* history: updateCatalog has succeeded at least once
  lastCloseCode,          \* history: code of the last close event handled
  lastOp,                 \* history: the step just taken and what it produced
  input,                  \* the text under test when a function is exercised alone;
                          \* in SpecExecute, SpecVersions and SpecReply the note
                          \* kept of each call
  sqlService,             \* SqlService: config, the driver and its pool, _lastTestSuccess
  sqlCalls,               \* SqlService calls suspended at an await
  testedOk,               \* history: a testConnection succeeded, and no configure()
                          \* call or failed testConnection came after it
  pendingRequests,        \* WebSocketService.pendingRequests: the ids it holds
  authCalls,              \* the verifyAuth calls that created an entry, by id
  pgPools,                \* every pg.Pool a PostgresDriver constructed, by state
  pgPool,                 \* PostgresDriver.pool: the pool it holds (0 is null)
  pgCalls                 \* SqlService calls on a Postgres driver, by position

engineVars == <<catalog, templateHashMap, expiresAt>>

connVars == <<socks, socket, reconnectAttempts, reconnectTimers, isConnectedFlag>>

timerVars == <<hbTimers, heartbeatInterval, refreshTimers, catalogRefreshInterval>>

sqlVars == <<sqlService, sqlCalls, testedOk>>

authVars == <<pendingRequests, authCalls>>

pgVars == <<pgPools, pgPool, pgCalls>>

vars == <<config, catalog, templateHashMap, expiresAt, now, socks, socket,
          reconnectAttempts, reconnectTimers, hbTimers, heartbeatInterval,
          refreshTimers, catalogRefreshInterval, isConnectedFlag, reqs, syncs,
          started, everAccepted, lastCloseCode, lastOp, input, sqlVars, pgVars, authVars>>

-----------------------------------------------------------------------------
(* Bounds of the model. *)

MaxTemplateLen == 4

MaxTime == 4

\* Sockets that may be alive at once.
MaxSockets == 2

\* Reconnects scheduled without an open in between, when the backoff is the
\* subject.
MaxAttempts == 7

\* syncProjectData calls that may be running at once.
MaxSyncs == 1

\* Requests the controller sends in one run.
MaxRequests == 2

\* Reconnects scheduled in a row while requests are being served.
MaxRetries == 1

\* Reconnect timers pending at once.
MaxTimers == 1

\* Seconds of wall-clock time that pass while requests are being served.
MaxClientTime == 2

\* Pieces in a template handed to substituteParams.
MaxPieces == 3

\* Pieces in a template handed to hashTemplate.
MaxNormPieces == 4

\* Calls of SqlService.testConnection.
MaxTests == 2

\* Calls of SqlService.configure.
MaxConfigures == 3

-----------------------------------------------------------------------------
(* Text helpers. *)

\* A value that may be absent (null or undefined) is a sequence of length at
\* most one: <<>> is the absent value, <<v>> is v.
Null == <<>>

Some(v) == <<v>>

\* The time value of an invalid Date.
NaN == 0 - 1

\* Characters matched by the regular expression class \s (those the model uses).
WhiteSpace == {" ", "\t", "\n", "\r"}

\* Characters the regular expression "." does not match.
LineTerminators == {"\n", "\r"}

Letters == {"a", "b", "k", "x", "A", "B", "D", "E", "L", "O", "P", "R", "T"}

Digits == {"7", "4", "2"}

\* The set of all texts over alphabet of length at most n.
RECURSIVE TextsUpTo(_, _)
TextsUpTo(alphabet, n) ==
  IF n = 0 THEN {<<>>}
  ELSE LET shorter == TextsUpTo(alphabet, n - 1)
       IN  shorter \cup {Append(t, c) : t \in shorter, c \in alphabet}

\* s.startsWith(p) at index i (1-based).
MatchesAt(s, i, p) ==
  /\ i + Len(p) - 1 <= Len(s)
  /\ \A j \in 1..Len(p) : s[i + j - 1] = p[j]

-----------------------------------------------------------------------------
(* AllowlistService: normalizeTemplate and hashTemplate. *)

\* template.replace(/--.*?$/gm, ''): from each "--" up to, not including, the
\* next line terminator or the end of input.
RECURSIVE StripLineComments(_, _, _)
StripLineComments(s, i, inComment) ==
  IF i > Len(s) THEN <<>>
  ELSE IF inComment
       THEN IF s[i] \in LineTerminators
            THEN <<s[i]>> \o StripLineComments(s, i + 1, FALSE)
            ELSE StripLineComments(s, i + 1, TRUE)
       ELSE IF MatchesAt(s, i, <<"-", "-">>)
            THEN StripLineComments(s, i + 2, TRUE)
            ELSE <<s[i]>> \o StripLineComments(s, i + 1, FALSE)

\* normalized.replace(/\/\*[\s\S]*?\*\//g, ''): from each "/*" to the first
\* "*/" that starts at least two characters later; an unclosed "/*" stays.
RECURSIVE StripBlockComments(_, _)
StripBlockComments(s, i) ==
  IF i > Len(s) THEN <<>>
  ELSE LET closers == {j \in (i + 2)..(Len(s) - 1) : MatchesAt(s, j, <<"*", "/">>)}
       IN  IF MatchesAt(s, i, <<"/", "*">>) /\ closers # {}
           THEN LET j == CHOOSE k \in closers : \A m \in closers : k <= m
                IN  StripBlockComments(s, j + 2)
           ELSE <<s[i]>> \o StripBlockComments(s, i + 1)

\* normalized.split(/\s+/).join(' '): every run of whitespace becomes one space.
RECURSIVE CollapseWhitespace(_, _)
CollapseWhitespace(s, i) ==
  IF i > Len(s) THEN <<>>
  ELSE IF s[i] \in WhiteSpace
       THEN IF i > 1 /\ s[i - 1] \in WhiteSpace
            THEN CollapseWhitespace(s, i + 1)
            ELSE <<" ">> \o CollapseWhitespace(s, i + 1)
       ELSE <<s[i]>> \o CollapseWhitespace(s, i + 1)

\* String.prototype.trim().
Trim(s) ==
  LET keep == {i \in 1..Len(s) : s[i] \notin WhiteSpace}
  IN  IF keep = {} THEN <<>>
      ELSE LET lo == CHOOSE i \in keep : \A j \in keep : i <= j
               hi == CHOOSE i \in keep : \A j \in keep : j <= i
           IN  SubSeq(s, lo, hi)

NormalizeTemplateMutant(template) ==
  CollapseWhitespace(
    StripBlockComments(StripLineComments(template, 1, FALSE), 1), 1)

NormalizeTemplate(template) ==
  Trim(CollapseWhitespace(
         StripBlockComments(StripLineComments(template, 1, FALSE), 1), 1))

\* "sha256:" + hex digest of the normalized text.
HashTemplate(template) ==
  [prefix |-> "sha256:", digestOf |-> NormalizeTemplate(template)]

-----------------------------------------------------------------------------
(* QueryCatalog documents and their signatures. *)

\* Object.keys(queries).sort(): tool ids in code-unit order.
KeyOrder == <<"toolA", "toolB">>

KeyRank(k) == CHOOSE i \in 1..Len(KeyOrder) : KeyOrder[i] = k

\* sortObjectKeys on an object given as its entries in insertion order.
RECURSIVE SortObjectKeys(_)
SortObjectKeys(entries) ==
  IF entries = <<>> THEN <<>>
  ELSE LET least == CHOOSE i \in 1..Len(entries) :
                      \A j \in 1..Len(entries) :
                        KeyRank(entries[i][1]) <= KeyRank(entries[j][1])
           rest == [j \in 1..(Len(entries) - 1) |->
                      IF j < least THEN entries[j] ELSE entries[j + 1]]
       IN  <<entries[least]>> \o SortObjectKeys(rest)

\* JSON.stringify(sortObjectKeys({expires_at, generated_at, queries, version})):
\* the members in key order, the queries object key-sorted as well.
ContentToVerify(c) ==
  << <<"expires_at", c.expires_at>>,
     <<"generated_at", c.generated_at>>,
     <<"queries", SortObjectKeys(c.queries)>>,
     <<"version", c.version>> >>

\* The public key a PEM certificate carries; a malformed PEM carries none.
PublicKeyOf(pem) ==
  CASE pem = "CA_PEM" -> "caKey"
    [] OTHER -> "noKey"

\* verifier.verify(caCertificate, signature) for the bytes in content.
CryptoVerify(pem, content, signature) ==
  /\ PublicKeyOf(pem) # "noKey"
  /\ signature.key = PublicKeyOf(pem)
  /\ signature.signed = content

VerifySignatureMutant(caCertificate, c) ==
  \/ caCertificate = ""
  \/ CryptoVerify(caCertificate, ContentToVerify(c), c.signature)

\* AllowlistService.verifySignature: false without a certificate, false when
\* the verifier throws (malformed PEM), else the verifier's verdict.
VerifySignature(caCertificate, c) ==
  IF caCertificate = "" THEN FALSE
  ELSE CryptoVerify(caCertificate, ContentToVerify(c), c.signature)

\* new Date(iso).getTime(); a text that is no date gives NaN.
DateParse(iso) ==
  CASE iso = "1970-01-01T00:00:01Z" -> 1
    [] iso = "1970-01-01T00:00:03Z" -> 3
    [] OTHER -> NaN

\* a > b on two Date values: false whenever one of them is an invalid date.
DateAfter(a, b) == a # NaN /\ b # NaN /\ a > b

\* The reverse map built by the for loop of updateCatalog: later entries
\* overwrite earlier ones that carry the same hash.
RECURSIVE BuildHashMap(_, _)
BuildHashMap(entries, m) ==
  IF entries = <<>> THEN m
  ELSE LET toolId == entries[1][1]
           hash == entries[1][2]
           set == [h \in DOMAIN m \cup {hash} |-> IF h = hash THEN toolId ELSE m[h]]
       IN  BuildHashMap(Tail(entries), set)

EmptyMap == [h \in {} |-> ""]

\* An engine state: <<catalog, templateHashMap, expiresAt>>.
EngineInit == <<Null, EmptyMap, Null>>

UpdateCatalogKeepsNewest(caCertificate, engine, c) ==
  IF ~VerifySignature(caCertificate, c)
  THEN [engine |-> engine, threw |-> "SIGNATURE_INVALID"]
  ELSE IF engine[1] # Null /\ engine[1][1].version > c.version
  THEN [engine |-> engine, threw |-> "VERSION_ROLLBACK"]
  ELSE [engine |-> <<Some(c), BuildHashMap(c.queries, EmptyMap),
                     Some(DateParse(c.expires_at))>>,
        threw |-> ""]

UpdateCatalogClearsOnRepeat(caCertificate, engine, c) ==
  IF ~VerifySignature(caCertificate, c)
  THEN [engine |-> engine, threw |-> "SIGNATURE_INVALID"]
  ELSE IF engine[1] = Some(c)
  THEN [engine |-> <<engine[1], EmptyMap, engine[3]>>, threw |-> ""]
  ELSE [engine |-> <<Some(c), BuildHashMap(c.queries, EmptyMap),
                     Some(DateParse(c.expires_at))>>,
        threw |-> ""]

\* AllowlistService.updateCatalog: the engine state after the call and the
\* error code thrown ("" when the call returns).
UpdateCatalog(caCertificate, engine, c) ==
  IF ~VerifySignature(caCertificate, c)
  THEN [engine |-> engine, threw |-> "SIGNATURE_INVALID"]
  ELSE [engine |-> <<Some(c), BuildHashMap(c.queries, EmptyMap),
                     Some(DateParse(c.expires_at))>>,
        threw |-> ""]

ClearCatalogMutant(engine) == <<Null, engine[2], Null>>

\* AllowlistService.clearCatalog.
ClearCatalog(engine) == <<Null, EmptyMap, Null>>

\* AllowlistService.hasCatalog.
HasCatalog(engine) == engine[1] # Null

\* AllowlistService.isCatalogExpired at wall-clock time t.
IsCatalogExpired(engine, t) ==
  IF engine[3] = Null THEN TRUE ELSE DateAfter(t, engine[3][1])

ValidateTemplateMutant(engine, t, template) ==
  IF ~HasCatalog(engine) THEN "CATALOG_MISSING"
  ELSE IF HashTemplate(template) \notin DOMAIN engine[2] THEN "TEMPLATE_NOT_ALLOWED"
  ELSE IF IsCatalogExpired(engine, t) THEN "CATALOG_EXPIRED"
  ELSE ""

\* AllowlistService.validateTemplate at wall-clock time t: the error code
\* thrown, "" when the template is approved.
ValidateTemplate(engine, t, template) ==
  IF ~HasCatalog(engine) THEN "CATALOG_MISSING"
  ELSE IF IsCatalogExpired(engine, t) THEN "CATALOG_EXPIRED"
  ELSE IF HashTemplate(template) \notin DOMAIN engine[2] THEN "TEMPLATE_NOT_ALLOWED"
  ELSE ""

-----------------------------------------------------------------------------
(* AllowlistService: sanitizeParam and substituteParams. *)

\* The characters of the class [a-zA-Z0-9_.\[\]].
ParamChars == Letters \cup Digits \cup {"_", ".", "[", "]"}

SanitizeParamKeepsSpaces(value) ==
  SelectSeq(value, LAMBDA c : c \in ParamChars \cup {" "})

\* value.replace(/[^a-zA-Z0-9_.\[\]]/g, '').
SanitizeParam(value) == SelectSeq(value, LAMBDA c : c \in ParamChars)

\* One character of a regular expression built from the key: "." matches any
\* character but a line terminator, every other character of the model's
\* alphabet matches itself.
RegexCharMatches(p, c) ==
  IF p = "." THEN c \notin LineTerminators ELSE p = c

\* new RegExp(`\\{\\{${key}\\}\\}`, 'g'): the key is spliced in unescaped.
PlaceholderPattern(key) == <<"{", "{">> \o key \o <<"}", "}">>

PatternMatchesAt(s, i, pattern) ==
  /\ i + Len(pattern) - 1 <= Len(s)
  /\ \A j \in 1..Len(pattern) : RegexCharMatches(pattern[j], s[i + j - 1])

\* result.replace(placeholder, sanitized) with the g flag: every match, left
\* to right, without rescanning replaced text.
RECURSIVE ReplaceAll(_, _, _, _)
ReplaceAll(s, i, pattern, by) ==
  IF i > Len(s) THEN <<>>
  ELSE IF PatternMatchesAt(s, i, pattern)
       THEN by \o ReplaceAll(s, i + Len(pattern), pattern, by)
       ELSE <<s[i]>> \o ReplaceAll(s, i + 1, pattern, by)

\* AllowlistService.substituteParams; params are the entries of the object in
\* insertion order, each <<key, value>>.
RECURSIVE SubstituteParams(_, _)
SubstituteParams(template, params) ==
  IF params = <<>> THEN template
  ELSE SubstituteParams(
         ReplaceAll(template, 1, PlaceholderPattern(params[1][1]),
                    SanitizeParam(params[1][2])),
         Tail(params))

-----------------------------------------------------------------------------
(* The inputs the model offers. *)

\* The text the injection tests append to an approved template.
InjectionSuffix ==
  <<";", " ", "D", "R", "O", "P", " ", "T", "A", "B", "L", "E", " ", "x">>

TemplateA == <<"a">>

TemplateK == <<"a", " ", "{", "{", "k", "}", "}">>

\* The signature the controller's key, or another key, puts on a document.
Sign(key, c) == [key |-> key, signed |-> ContentToVerify(c)]

\* Bytes that are no signature of anything.
GarbageSignature == [key |-> "noKey", signed |-> <<>>]

QueriesA == << <<"toolA", HashTemplate(TemplateA)>> >>

QueriesBA == << <<"toolB", HashTemplate(TemplateK)>>,
                <<"toolA", HashTemplate(TemplateA)>> >>

QueriesAB == << <<"toolA", HashTemplate(TemplateA)>>,
                <<"toolB", HashTemplate(TemplateK)>> >>

QueriesDup == << <<"toolA", HashTemplate(TemplateA)>>,
                 <<"toolB", HashTemplate(TemplateA)>> >>

QueriesInj == << <<"toolA", HashTemplate(TemplateA)>>,
                 <<"toolB", HashTemplate(TemplateA \o InjectionSuffix)>> >>

Document(version, expires, queries) ==
  [version |-> version, generated_at |-> "1970-01-01T00:00:00Z",
   expires_at |-> expires, queries |-> queries, signature |-> GarbageSignature]

ExpiryTexts == {"1970-01-01T00:00:01Z", "1970-01-01T00:00:03Z"}

\* Catalog documents before signing.
EngineDocuments ==
  {Document(1, e, q) : e \in ExpiryTexts \cup {"soon"},
                       q \in {QueriesA, QueriesBA, QueriesAB, QueriesDup, QueriesInj}}
  \cup {Document(2, e, QueriesA) : e \in ExpiryTexts}

\* What can arrive for a set of documents: each document with the controller's
\* signature over itself, with the controller's signature over another
\* document (fields changed after signing), with a signature under a foreign
\* key, and with bytes that are no signature.
WireCatalogs(documents) ==
  UNION {{[c EXCEPT !.signature = g] :
            g \in {Sign("caKey", d) : d \in documents}
                  \cup {Sign("otherKey", c), GarbageSignature}} :
         c \in documents}

EngineCatalogs == WireCatalogs(EngineDocuments)

EngineTemplates ==
  {TemplateA, TemplateK, TemplateA \o <<" ">>, TemplateA \o InjectionSuffix,
   <<"b">>, <<"a", "-", "-", "b">>}

CaCertificates == {"", "CA_PEM", "BAD_PEM"}

-----------------------------------------------------------------------------
(* History record of the step just taken. *)

NoOp ==
  [op |-> "init", outcome |-> "", template |-> Null, id |-> 0, req |-> Null,
   handed |-> Null, result |-> Null, sent |-> <<>>, delay |-> 0, code |-> 0]

Engine == <<catalog, templateHashMap, expiresAt>>

-----------------------------------------------------------------------------
(* SqlService: configure, testConnection, execute, isConnected, and the    *)
(* driver behind them.                                                     *)

\* The SqlConfig objects handed to configure(); dbType may be missing ("").
SqlConfigs ==
  {[dbType |-> "mssql", server |-> "db1"],
   [dbType |-> "", server |-> "db1"],
   [dbType |-> "postgres", server |-> "db1"]}

\* The JSON bodies posted to /sql/configure: dbType and port may be missing
\* (Null); a port of 0 is posted by a form left at zero.
SqlConfigureBodies ==
  {[dbType |-> t, server |-> "db1", port |-> p] :
     t \in {Null, Some("mssql"), Some("postgres")},
     p \in {Null, Some(0), Some(6000)}}

\* parseInt(req.body.port, 10): NaN for a missing port.
ParseIntPort(port) == IF port = Null THEN NaN ELSE port[1]

ApiSqlConfigAlways1433(body) ==
  LET dbType == IF body.dbType = Null \/ body.dbType = Some("") THEN "mssql"
                ELSE body.dbType[1]
      defaultPort == 1433
  IN  [dbType |-> dbType,
       server |-> body.server,
       port |-> IF ParseIntPort(body.port) \in {NaN, 0} THEN defaultPort
                ELSE ParseIntPort(body.port)]

\* POST /sql/configure: the SqlConfig built from the request body.
ApiSqlConfig(body) ==
  LET dbType == IF body.dbType = Null \/ body.dbType = Some("") THEN "mssql"
                ELSE body.dbType[1]
      defaultPort == IF dbType = "postgres" THEN 5432 ELSE 1433
  IN  [dbType |-> dbType,
       server |-> body.server,
       port |-> IF ParseIntPort(body.port) \in {NaN, 0} THEN defaultPort
                ELSE ParseIntPort(body.port)]

\* The service after construction. driver is the identity of the driver
\* object (0 is null), dbType the class it was created from, pool its pool:
\* "none" (null), "up" (a pool with a live connection), "down" (a pool object
\* without one), "ending" (close() or end() was called on it).
SqlServiceInit ==
  [config |-> Null, driver |-> 0, dbType |-> "", pool |-> "none",
   lastTestSuccess |-> FALSE]

\* No call is suspended: tests holds the position of every testConnection
\* call, configures the configure() calls waiting at "await this.disconnect()",
\* configured the number of configure() calls made.
SqlCallsInit ==
  [tests |-> [t \in 1..MaxTests |-> [pc |-> "unused", driver |-> 0]],
   configures |-> <<>>,
   configured |-> 0]

SqlIdle ==
  /\ sqlService = SqlServiceInit
  /\ sqlCalls = SqlCallsInit
  /\ testedOk = FALSE

\* WebSocketService as constructed: no pending request.
AuthIdle ==
  /\ pendingRequests = {}
  /\ authCalls = <<>>

\* No PostgresDriver has opened a pool, no call is running.
PgIdle ==
  /\ pgPools = <<>>
  /\ pgPool = 0
  /\ pgCalls = <<>>

\* IDbDriver.isConnected of the service's driver: MssqlDriver answers
\* pool?.connected ?? false, PostgresDriver pool !== null && !pool.ending.
DriverIsConnected(service) ==
  /\ service.driver # 0
  /\ IF service.dbType = "postgres"
     THEN service.pool \in {"up", "down"}
     ELSE service.pool = "up"

SqlIsConnectedDriverOnly(service) == DriverIsConnected(service)

\* SqlService.isConnected.
SqlIsConnected(service) ==
  DriverIsConnected(service) \/ service.lastTestSuccess

\* SqlService.connect up to its await: a driver is created when there is none,
\* and driver.connect(config) is called; PostgresDriver assigns its pool before
\* it awaits, MssqlDriver after.
SqlConnectCalled(service) ==
  LET made == IF service.driver = 0
              THEN [service EXCEPT !.driver = 1,
                                   !.dbType = service.config[1].dbType,
                                   !.pool = "none"]
              ELSE service
  IN  IF made.dbType = "postgres" THEN [made EXCEPT !.pool = "down"] ELSE made

\* driver.connect(config) settles for the driver object it was called on.
SqlConnectSettled(service, driver, ok) ==
  IF ok /\ driver = service.driver THEN [service EXCEPT !.pool = "up"] ELSE service

-----------------------------------------------------------------------------
(* The allowlist engine alone: any caller, any order of calls. *)

clientVars ==
  <<socks, socket, reconnectAttempts, reconnectTimers, hbTimers,
    heartbeatInterval, refreshTimers, catalogRefreshInterval, isConnectedFlag,
    reqs, syncs, started, everAccepted, lastCloseCode, input, sqlVars, pgVars, authVars>>

ClientIdle ==
  /\ socks = <<>>
  /\ socket = 0
  /\ reconnectAttempts = 0
  /\ reconnectTimers = <<>>
  /\ hbTimers = 0
  /\ heartbeatInterval = FALSE
  /\ refreshTimers = 0
  /\ catalogRefreshInterval = FALSE
  /\ isConnectedFlag = FALSE
  /\ reqs = <<>>
  /\ syncs = <<>>
  /\ started = FALSE
  /\ everAccepted = FALSE
  /\ lastCloseCode = 0
  /\ SqlIdle
  /\ AuthIdle
  /\ PgIdle

InitEngine ==
  /\ config \in {[caCertificate |-> pem] : pem \in CaCertificates}
  /\ catalog = Null
  /\ templateHashMap = EmptyMap
  /\ expiresAt = Null
  /\ now = 0
  /\ lastOp = NoOp
  /\ input = <<>>
  /\ ClientIdle

\* The wall clock advances.
Tick ==
  /\ now < MaxTime
  /\ now' = now + 1
  /\ lastOp' = [NoOp EXCEPT !.op = "tick"]
  /\ UNCHANGED <<config, engineVars, clientVars>>

EngUpdateCatalog(c) ==
  LET r == UpdateCatalog(config.caCertificate, Engine, c)
  IN  /\ catalog' = r.engine[1]
      /\ templateHashMap' = r.engine[2]
      /\ expiresAt' = r.engine[3]
      /\ lastOp' = [NoOp EXCEPT
                      !.op = "updateCatalog",
                      !.outcome = r.threw,
                      !.id = IF /\ lastOp.op = "updateCatalog"
                                /\ lastOp.outcome = ""
                                /\ catalog = Some(c)
                             THEN 2 ELSE 1]
      /\ UNCHANGED <<config, now, clientVars>>

EngClearCatalog ==
  /\ catalog' = ClearCatalog(Engine)[1]
  /\ templateHashMap' = ClearCatalog(Engine)[2]
  /\ expiresAt' = ClearCatalog(Engine)[3]
  /\ lastOp' = [NoOp EXCEPT !.op = "clearCatalog"]
  /\ UNCHANGED <<config, now, clientVars>>

EngValidateTemplate(t) ==
  /\ lastOp' = [NoOp EXCEPT !.op = "validateTemplate",
                            !.outcome = ValidateTemplate(Engine, now, t),
                            !.template = Some(t)]
  /\ UNCHANGED <<config, engineVars, now, clientVars>>

NextEngine ==
  \/ Tick
  \/ \E c \in EngineCatalogs : EngUpdateCatalog(c)
  \/ EngClearCatalog
  \/ \E t \in EngineTemplates : EngValidateTemplate(t)

SpecEngine == InitEngine /\ [][NextEngine]_vars

-----------------------------------------------------------------------------
(* Claims about the allowlist engine, checked under SpecEngine. *)

\* The hash values the stored catalog lists.
CatalogHashes == {catalog[1].queries[i][2] : i \in 1..Len(catalog[1].queries)}

\* C4: after any sequence of successful updateCatalog, failed updateCatalog
\* and clearCatalog calls the stored catalog, the expiry and the reverse map
\* belong together: the map's keys are exactly the hashes of the stored
\* catalog's queries (none when no catalog is stored), every key maps to a
\* tool id that carries that hash in the stored catalog, and the expiry is the
\* stored catalog's expires_at.
C4_CatalogStateConsistent ==
  IF catalog = Null
  THEN templateHashMap = EmptyMap /\ expiresAt = Null
  ELSE /\ DOMAIN templateHashMap = CatalogHashes
       /\ \A h \in DOMAIN templateHashMap :
            \E i \in 1..Len(catalog[1].queries) :
              catalog[1].queries[i] = <<templateHashMap[h], h>>
       /\ expiresAt = Some(DateParse(catalog[1].expires_at))

\* C4 witness: a catalog with two tools sharing one hash is stored and a later
\* update has just failed verification.
C4_Witness ==
  /\ catalog # Null
  /\ catalog[1].queries = QueriesDup
  /\ lastOp.op = "updateCatalog"
  /\ lastOp.outcome = "SIGNATURE_INVALID"

\* What the claim says validateTemplate answers, read off the stored catalog.
C5_Expected(template) ==
  IF catalog = Null THEN "CATALOG_MISSING"
  ELSE IF DateAfter(now, DateParse(catalog[1].expires_at)) THEN "CATALOG_EXPIRED"
  ELSE IF HashTemplate(template) \notin CatalogHashes THEN "TEMPLATE_NOT_ALLOWED"
  ELSE ""

\* C5: validateTemplate checks in a fixed order (CATALOG_MISSING, then
\* CATALOG_EXPIRED, then TEMPLATE_NOT_ALLOWED, else it returns) and in all
\* four outcomes leaves the stored catalog, expiry and reverse map unchanged.
C5_ValidateOrder ==
  [][lastOp'.op = "validateTemplate" =>
       /\ lastOp'.outcome = C5_Expected(lastOp'.template[1])
       /\ UNCHANGED engineVars]_vars

\* C5 witness: an unapproved template was validated against an expired
\* catalog and CATALOG_EXPIRED, not TEMPLATE_NOT_ALLOWED, was raised.
C5_Witness ==
  /\ lastOp.op = "validateTemplate"
  /\ lastOp.outcome = "CATALOG_EXPIRED"
  /\ HashTemplate(lastOp.template[1]) \notin DOMAIN templateHashMap

-----------------------------------------------------------------------------
(* validateTemplate exercised on one template and the texts derived from   *)
(* it, against a catalog that was accepted.                                *)

TemplateAlphabet == {"a", " ", "\n", "-", "/", "*"}

Templates == TextsUpTo(TemplateAlphabet, MaxTemplateLen)

TemplateCatalogs ==
  {[d EXCEPT !.signature = Sign("caKey", d)] :
     d \in {Document(1, "1970-01-01T00:00:03Z", q) : q \in {QueriesA, QueriesInj}}}

\* The texts validated for a template: itself, with a space appended, with
\* the injection suffix appended.
Variants == {<<>>, <<" ">>, InjectionSuffix}

InitTemplate ==
  /\ config = [caCertificate |-> "CA_PEM"]
  /\ catalog = Null
  /\ templateHashMap = EmptyMap
  /\ expiresAt = Null
  /\ now = 0
  /\ lastOp = NoOp
  /\ input \in Templates
  /\ ClientIdle

TplUpdateCatalog(c) ==
  LET r == UpdateCatalog(config.caCertificate, Engine, c)
  IN  /\ catalog' = r.engine[1]
      /\ templateHashMap' = r.engine[2]
      /\ expiresAt' = r.engine[3]
      /\ lastOp' = [NoOp EXCEPT !.op = "updateCatalog", !.outcome = r.threw]
      /\ UNCHANGED <<config, now, clientVars>>

TplValidateTemplate(suffix) ==
  /\ lastOp' = [NoOp EXCEPT !.op = "validateTemplate",
                            !.outcome = ValidateTemplate(Engine, now, input \o suffix),
                            !.template = Some(input \o suffix)]
  /\ UNCHANGED <<config, engineVars, now, clientVars>>

NextTemplate ==
  \/ \E c \in TemplateCatalogs : TplUpdateCatalog(c)
  \/ \E v \in Variants : TplValidateTemplate(v)

SpecTemplate == InitTemplate /\ [][NextTemplate]_vars

\* The template under test is one whose normalized hash is a value in a
\* stored, unexpired catalog.
InputApproved ==
  /\ catalog # Null
  /\ ~DateAfter(now, DateParse(catalog[1].expires_at))
  /\ HashTemplate(input) \in CatalogHashes

Validated(text) == lastOp.op = "validateTemplate" /\ lastOp.template = Some(text)

\* The last line of t contains "--".
LastLineHasDashes(t) ==
  \E i \in 1..(Len(t) - 1) :
    /\ MatchesAt(t, i, <<"-", "-">>)
    /\ \A j \in (i + 2)..Len(t) : t[j] \notin LineTerminators

\* C6 as claimed: for every template T whose normalized hash is a value in a
\* stored, unexpired catalog, validateTemplate(T) succeeds,
\* validateTemplate(T + " ") succeeds, and
\* validateTemplate(T + "; DROP TABLE x") fails with TEMPLATE_NOT_ALLOWED.
C6_AsClaimed ==
  InputApproved =>
    /\ Validated(input) => lastOp.outcome = ""
    /\ Validated(input \o <<" ">>) => lastOp.outcome = ""
    /\ Validated(input \o InjectionSuffix) => lastOp.outcome = "TEMPLATE_NOT_ALLOWED"

\* C6 as amended: for every approved template T, validateTemplate(T) and
\* validateTemplate(T + " ") succeed.  When the last line of T contains "--"
\* the suffix "; DROP TABLE x" falls inside the line comment and
\* validateTemplate(T + "; DROP TABLE x") succeeds.  Otherwise the longer text
\* normalizes to something other than normalize(T), and validating it fails
\* with TEMPLATE_NOT_ALLOWED unless the catalog lists the hash of that longer
\* text as well.
C6_Amended ==
  InputApproved =>
    /\ Validated(input) => lastOp.outcome = ""
    /\ Validated(input \o <<" ">>) => lastOp.outcome = ""
    /\ Validated(input \o InjectionSuffix) =>
         IF LastLineHasDashes(input)
         THEN lastOp.outcome = ""
         ELSE /\ NormalizeTemplate(input \o InjectionSuffix) # NormalizeTemplate(input)
              /\ lastOp.outcome =
                   IF HashTemplate(input \o InjectionSuffix) \in CatalogHashes
                   THEN "" ELSE "TEMPLATE_NOT_ALLOWED"

\* C6 witness: an approved template whose first line is a comment and whose
\* last line is not was validated with the suffix appended, and was refused.
C6_Witness ==
  /\ InputApproved
  /\ input = <<"-", "-", "\n", "a">>
  /\ Validated(input \o InjectionSuffix)
  /\ lastOp.outcome = "TEMPLATE_NOT_ALLOWED"

-----------------------------------------------------------------------------
(* WebSocketService: building the connection target. *)

RECONNECT_INITIAL_DELAY == 1000

RECONNECT_MAX_DELAY == 30000

\* Math.min.
Min(a, b) == IF a < b THEN a ELSE b

\* Math.pow(2, n).
RECURSIVE Pow2(_)
Pow2(n) == IF n = 0 THEN 1 ELSE 2 * Pow2(n - 1)

\* A URL is its scheme (with "://", "" when it has none), its host and its
\* path as a sequence of "/" and segment tokens.
Url(scheme, host, path) == [scheme |-> scheme, host |-> host, path |-> path]

EmptyUrl == Url("", "", <<>>)

ProbePath == <<"/", "ws", "/", "probe">>

\* baseUrl.includes('/ws/probe').
IncludesProbePath(path) ==
  \E i \in 1..Len(path) : MatchesAt(path, i, ProbePath)

\* WebSocketService.buildWebSocketConnection followed by new WebSocket(wsUrl,
\* wsOptions): threw is TRUE when new URL() or the WebSocket constructor
\* throws (no scheme, or a scheme that is neither ws nor wss).
BuildWebSocketConnection(cfg) ==
  LET url == cfg.serverUrl
      forceSecure == cfg.authMode = "certificate"
      scheme == CASE url.scheme = "https://" -> "wss://"
                  [] url.scheme = "http://" -> IF forceSecure THEN "wss://" ELSE "ws://"
                  [] OTHER -> url.scheme
      noSlash == IF url.path # <<>> /\ url.path[Len(url.path)] = "/"
                 THEN SubSeq(url.path, 1, Len(url.path) - 1)
                 ELSE url.path
      path == IF IncludesProbePath(noSlash) THEN noSlash ELSE noSlash \o ProbePath
      query == IF cfg.authMode = "certificate"
               THEN << <<"client_id", cfg.clientId>> >>
               ELSE << <<"client_id", cfg.clientId>>,
                       <<"client_secret", cfg.clientSecret>> >>
      options == IF cfg.authMode = "certificate"
                 THEN [headers |-> << <<"x-client-cert", cfg.certificate>> >>,
                       agent |-> Some([ca |-> "system", rejectUnauthorized |-> TRUE])]
                 ELSE [headers |-> <<>>,
                       agent |-> IF cfg.caCertificate # ""
                                 THEN Some([ca |-> cfg.caCertificate,
                                            rejectUnauthorized |-> TRUE])
                                 ELSE Null]
  IN  [threw |-> scheme \notin {"ws://", "wss://"} \/ url.host = "",
       wsUrl |-> [scheme |-> scheme, host |-> url.host, path |-> path, query |-> query],
       wsOptions |-> options]

\* config.ts determineAuthMode.
DetermineAuthMode(init) ==
  IF init.certificate # "" /\ init.privateKey # "" THEN "certificate"
  ELSE IF init.clientSecret # "" THEN "secret"
  ELSE "none"

\* config.ts: the AppConfig built from init.json.
AppConfig(init) ==
  [serverUrl |-> init.serverUrl, clientId |-> init.clientId,
   clientSecret |-> init.clientSecret, certificate |-> init.certificate,
   privateKey |-> init.privateKey, caCertificate |-> init.caCertificate,
   projectPath |-> init.projectPath,
   isConfigured |-> init.serverUrl # EmptyUrl /\ DetermineAuthMode(init) # "none",
   authMode |-> DetermineAuthMode(init)]

InitJson(url, secret, cert, ca, project) ==
  [serverUrl |-> url, clientId |-> "client-1", clientSecret |-> secret,
   certificate |-> cert, privateKey |-> IF cert = "" THEN "" ELSE "KEY_PEM",
   caCertificate |-> ca, projectPath |-> project]

-----------------------------------------------------------------------------
(* WebSocketService: sockets, timers and the reconnect backoff. *)

Slots == 1..MaxSockets

\* this.socket?.readyState === WebSocket.OPEN for socket table ss and
\* reference sk.
SocketOpen(ss, sk) == sk # 0 /\ ss[sk] = "OPEN"

Envelope(type, action, id, payload) ==
  [type |-> type, action |-> action, id |-> id, payload |-> payload]

\* WebSocketService.sendMessage: what reaches the wire.
SendMessage(ss, sk, m) == IF SocketOpen(ss, sk) THEN <<m>> ELSE <<>>

\* WebSocketService.registerProbe.
RegisterProbe(ss, sk) ==
  SendMessage(ss, sk, Envelope("request", "probe.register", 0, [serverId |-> "server-1"]))

SendHeartbeatUnguarded(ss, sk) ==
  <<Envelope("event", "probe.heartbeat", 0,
             [status |-> "ok", projectPath |-> config.projectPath])>>

\* WebSocketService.sendHeartbeat.
SendHeartbeat(ss, sk) ==
  IF SocketOpen(ss, sk)
  THEN SendMessage(ss, sk, Envelope("event", "probe.heartbeat", 0,
                                    [status |-> "ok", projectPath |-> config.projectPath]))
  ELSE <<>>

ReconnectDelayMutant(attempts) == RECONNECT_INITIAL_DELAY * Pow2(attempts)

\* The delay computed by scheduleReconnect.
ReconnectDelay(attempts) ==
  Min(RECONNECT_INITIAL_DELAY * Pow2(attempts), RECONNECT_MAX_DELAY)

\* A socket object nothing refers to any more and that will raise no further
\* event is gone.
Release(ss, sk) ==
  IF sk # 0 /\ ss[sk] = "CLOSED" THEN [ss EXCEPT ![sk] = "FREE"] ELSE ss

ConnectNoAuthCheck(timers, cap) ==
  IF config.serverUrl = EmptyUrl
  THEN /\ reconnectTimers' = timers
       /\ lastOp' = [NoOp EXCEPT !.op = "connect", !.outcome = "not configured"]
       /\ UNCHANGED <<socks, socket, reconnectAttempts>>
  ELSE IF BuildWebSocketConnection(config).threw
       THEN /\ reconnectAttempts < cap
            /\ reconnectTimers' = Append(timers, ReconnectDelay(reconnectAttempts))
            /\ reconnectAttempts' = reconnectAttempts + 1
            /\ lastOp' = [NoOp EXCEPT !.op = "connect", !.outcome = "threw",
                                      !.delay = ReconnectDelay(reconnectAttempts)]
            /\ UNCHANGED <<socks, socket>>
       ELSE LET released == Release(socks, socket)
                free == {i \in Slots : released[i] = "FREE"}
            IN  /\ free # {}
                /\ LET n == CHOOSE i \in free : \A j \in free : i <= j
                   IN  /\ socks' = [released EXCEPT ![n] = "CONNECTING"]
                       /\ socket' = n
                /\ reconnectTimers' = timers
                /\ lastOp' = [NoOp EXCEPT !.op = "connect", !.outcome = "socket created"]
                /\ UNCHANGED reconnectAttempts

\* WebSocketService.connect, entered with the pending timers in timers; cap
\* bounds the reconnects scheduled in a row.
Connect(timers, cap) ==
  IF config.serverUrl = EmptyUrl \/ config.authMode = "none"
  THEN /\ reconnectTimers' = timers
       /\ lastOp' = [NoOp EXCEPT !.op = "connect", !.outcome = "not configured"]
       /\ UNCHANGED <<socks, socket, reconnectAttempts>>
  ELSE IF BuildWebSocketConnection(config).threw
       THEN /\ reconnectAttempts < cap
            /\ reconnectTimers' = Append(timers, ReconnectDelay(reconnectAttempts))
            /\ reconnectAttempts' = reconnectAttempts + 1
            /\ lastOp' = [NoOp EXCEPT !.op = "connect", !.outcome = "threw",
                                      !.delay = ReconnectDelay(reconnectAttempts)]
            /\ UNCHANGED <<socks, socket>>
       ELSE LET released == Release(socks, socket)
                free == {i \in Slots : released[i] = "FREE"}
            IN  /\ free # {}
                /\ LET n == CHOOSE i \in free : \A j \in free : i <= j
                   IN  /\ socks' = [released EXCEPT ![n] = "CONNECTING"]
                       /\ socket' = n
                /\ reconnectTimers' = timers
                /\ lastOp' = [NoOp EXCEPT !.op = "connect", !.outcome = "socket created"]
                /\ UNCHANGED reconnectAttempts

\* index.ts start(): connect once when the agent is configured.
Startup(cap) ==
  /\ ~started
  /\ started' = TRUE
  /\ IF config.isConfigured
     THEN Connect(reconnectTimers, cap)
     ELSE /\ lastOp' = [NoOp EXCEPT !.op = "startup", !.outcome = "not configured"]
          /\ UNCHANGED <<socks, socket, reconnectAttempts, reconnectTimers>>
  /\ UNCHANGED <<config, engineVars, now, timerVars, isConnectedFlag, reqs, syncs,
                 everAccepted, lastCloseCode, input, sqlVars, pgVars, authVars>>

\* The callback of a setTimeout armed by scheduleReconnect runs.
ReconnectTimerFires(i, cap) ==
  /\ i \in 1..Len(reconnectTimers)
  /\ Connect([j \in 1..(Len(reconnectTimers) - 1) |->
                IF j < i THEN reconnectTimers[j] ELSE reconnectTimers[j + 1]], cap)
  /\ UNCHANGED <<config, engineVars, now, timerVars, isConnectedFlag, reqs, syncs,
                 started, everAccepted, lastCloseCode, input, sqlVars, pgVars, authVars>>

\* The 'open' handler installed by connect.
OpenEvent(s) ==
  /\ socks[s] = "CONNECTING"
  /\ socks' = [socks EXCEPT ![s] = "OPEN"]
  /\ isConnectedFlag' = TRUE
  /\ reconnectAttempts' = 0
  /\ hbTimers' = (IF heartbeatInterval THEN hbTimers - 1 ELSE hbTimers) + 1
  /\ heartbeatInterval' = TRUE
  /\ IF config.projectPath = ""
     THEN syncs' = syncs
     ELSE /\ Len(syncs) < MaxSyncs
          /\ syncs' = Append(syncs, "scanProjectStructure")
  /\ lastOp' = [NoOp EXCEPT !.op = "open",
                            !.sent = RegisterProbe(socks', socket)
                                     \o SendHeartbeat(socks', socket)]
  /\ UNCHANGED <<config, engineVars, now, socket, reconnectTimers, refreshTimers,
                 catalogRefreshInterval, reqs, started, everAccepted, lastCloseCode,
                 input, sqlVars, pgVars, authVars>>

\* The close codes a socket in a given state can report: an aborted handshake
\* reports 1006, an established or closing socket whatever the peer sent.
CloseCodes(state) ==
  IF state = "CONNECTING" THEN {1006} ELSE {1000, 1006, 4001}

CloseEventNoRetry(s, code, cap) ==
  /\ socks[s] \in {"CONNECTING", "OPEN", "CLOSING"}
  /\ code \in CloseCodes(socks[s])
  /\ socks' = [socks EXCEPT ![s] = IF s = socket THEN "CLOSED" ELSE "FREE"]
  /\ isConnectedFlag' = FALSE
  /\ hbTimers' = IF heartbeatInterval THEN hbTimers - 1 ELSE hbTimers
  /\ heartbeatInterval' = FALSE
  /\ lastCloseCode' = code
  /\ lastOp' = [NoOp EXCEPT !.op = "close", !.code = code, !.outcome = "auth failed"]
  /\ UNCHANGED <<config, engineVars, now, socket, reconnectAttempts, reconnectTimers,
                 refreshTimers, catalogRefreshInterval, reqs, syncs, started,
                 everAccepted, input, sqlVars, pgVars, authVars>>

CloseEventMutant(s, code, cap) ==
  /\ socks[s] \in {"CONNECTING", "OPEN", "CLOSING"}
  /\ code \in CloseCodes(socks[s])
  /\ socks' = [socks EXCEPT ![s] = IF s = socket THEN "CLOSED" ELSE "FREE"]
  /\ isConnectedFlag' = FALSE
  /\ hbTimers' = IF heartbeatInterval THEN hbTimers - 1 ELSE hbTimers
  /\ heartbeatInterval' = FALSE
  /\ lastCloseCode' = code
  /\ reconnectAttempts < cap
  /\ reconnectTimers' = Append(reconnectTimers, ReconnectDelay(reconnectAttempts))
  /\ reconnectAttempts' = reconnectAttempts + 1
  /\ lastOp' = [NoOp EXCEPT !.op = "close", !.code = code, !.outcome = "reconnect",
                            !.delay = ReconnectDelay(reconnectAttempts)]
  /\ UNCHANGED <<config, engineVars, now, socket, refreshTimers,
                 catalogRefreshInterval, reqs, syncs, started, everAccepted, input, sqlVars, pgVars, authVars>>

CloseEventClearsPending(s, code, cap) ==
  /\ socks[s] \in {"CONNECTING", "OPEN", "CLOSING"}
  /\ code \in CloseCodes(socks[s])
  /\ socks' = [socks EXCEPT ![s] = IF s = socket THEN "CLOSED" ELSE "FREE"]
  /\ isConnectedFlag' = FALSE
  /\ hbTimers' = IF heartbeatInterval THEN hbTimers - 1 ELSE hbTimers
  /\ heartbeatInterval' = FALSE
  /\ lastCloseCode' = code
  /\ pendingRequests' = {}
  /\ IF code # 4001
     THEN /\ reconnectAttempts < cap
          /\ reconnectTimers' = Append(reconnectTimers, ReconnectDelay(reconnectAttempts))
          /\ reconnectAttempts' = reconnectAttempts + 1
          /\ lastOp' = [NoOp EXCEPT !.op = "close", !.code = code,
                                    !.outcome = "reconnect",
                                    !.delay = ReconnectDelay(reconnectAttempts)]
     ELSE /\ lastOp' = [NoOp EXCEPT !.op = "close", !.code = code,
                                    !.outcome = "auth failed"]
          /\ UNCHANGED <<reconnectAttempts, reconnectTimers>>
  /\ UNCHANGED <<config, engineVars, now, socket, refreshTimers,
                 catalogRefreshInterval, reqs, syncs, started, everAccepted, input,
                 sqlVars, pgVars, authCalls>>

\* The 'close' handler installed by connect.
CloseEvent(s, code, cap) ==
  /\ socks[s] \in {"CONNECTING", "OPEN", "CLOSING"}
  /\ code \in CloseCodes(socks[s])
  /\ socks' = [socks EXCEPT ![s] = IF s = socket THEN "CLOSED" ELSE "FREE"]
  /\ isConnectedFlag' = FALSE
  /\ hbTimers' = IF heartbeatInterval THEN hbTimers - 1 ELSE hbTimers
  /\ heartbeatInterval' = FALSE
  /\ lastCloseCode' = code
  /\ IF code # 4001
     THEN /\ reconnectAttempts < cap
          /\ reconnectTimers' = Append(reconnectTimers, ReconnectDelay(reconnectAttempts))
          /\ reconnectAttempts' = reconnectAttempts + 1
          /\ lastOp' = [NoOp EXCEPT !.op = "close", !.code = code,
                                    !.outcome = "reconnect",
                                    !.delay = ReconnectDelay(reconnectAttempts)]
     ELSE /\ lastOp' = [NoOp EXCEPT !.op = "close", !.code = code,
                                    !.outcome = "auth failed"]
          /\ UNCHANGED <<reconnectAttempts, reconnectTimers>>
  /\ UNCHANGED <<config, engineVars, now, socket, refreshTimers,
                 catalogRefreshInterval, reqs, syncs, started, everAccepted, input, sqlVars, pgVars, authVars>>

DisconnectCancelsReconnect ==
  /\ hbTimers' = IF heartbeatInterval THEN hbTimers - 1 ELSE hbTimers
  /\ heartbeatInterval' = FALSE
  /\ refreshTimers' = IF catalogRefreshInterval THEN refreshTimers - 1 ELSE refreshTimers
  /\ catalogRefreshInterval' = FALSE
  /\ isConnectedFlag' = FALSE
  /\ socks' = IF socket = 0 THEN socks
              ELSE IF socks[socket] \in {"CONNECTING", "OPEN"}
                   THEN [socks EXCEPT ![socket] = "CLOSING"]
                   ELSE Release(socks, socket)
  /\ socket' = 0
  /\ reconnectTimers' = <<>>
  /\ lastOp' = [NoOp EXCEPT !.op = "disconnect"]
  /\ UNCHANGED <<config, engineVars, now, reconnectAttempts, reqs,
                 syncs, started, everAccepted, lastCloseCode, input, sqlVars, pgVars, authVars>>

DisconnectAndRetry ==
  /\ hbTimers' = IF heartbeatInterval THEN hbTimers - 1 ELSE hbTimers
  /\ heartbeatInterval' = FALSE
  /\ refreshTimers' = IF catalogRefreshInterval THEN refreshTimers - 1 ELSE refreshTimers
  /\ catalogRefreshInterval' = FALSE
  /\ isConnectedFlag' = FALSE
  /\ socks' = IF socket = 0 THEN socks
              ELSE IF socks[socket] \in {"CONNECTING", "OPEN"}
                   THEN [socks EXCEPT ![socket] = "CLOSING"]
                   ELSE Release(socks, socket)
  /\ socket' = 0
  /\ Len(reconnectTimers) < MaxTimers
  /\ reconnectTimers' = Append(reconnectTimers, ReconnectDelay(reconnectAttempts))
  /\ lastOp' = [NoOp EXCEPT !.op = "disconnect"]
  /\ UNCHANGED <<config, engineVars, now, reconnectAttempts, reqs,
                 syncs, started, everAccepted, lastCloseCode, input, sqlVars, pgVars, authVars>>

DisconnectClearsCatalog ==
  /\ hbTimers' = IF heartbeatInterval THEN hbTimers - 1 ELSE hbTimers
  /\ heartbeatInterval' = FALSE
  /\ refreshTimers' = IF catalogRefreshInterval THEN refreshTimers - 1 ELSE refreshTimers
  /\ catalogRefreshInterval' = FALSE
  /\ isConnectedFlag' = FALSE
  /\ socks' = IF socket = 0 THEN socks
              ELSE IF socks[socket] \in {"CONNECTING", "OPEN"}
                   THEN [socks EXCEPT ![socket] = "CLOSING"]
                   ELSE Release(socks, socket)
  /\ socket' = 0
  /\ catalog' = Null
  /\ templateHashMap' = EmptyMap
  /\ expiresAt' = Null
  /\ lastOp' = [NoOp EXCEPT !.op = "disconnect"]
  /\ UNCHANGED <<config, now, reconnectAttempts, reconnectTimers, reqs,
                 syncs, started, everAccepted, lastCloseCode, input, sqlVars, pgVars, authVars>>

\* WebSocketService.disconnect; socket.close() moves a connecting or open
\* socket to CLOSING and leaves any other alone.
Disconnect ==
  /\ hbTimers' = IF heartbeatInterval THEN hbTimers - 1 ELSE hbTimers
  /\ heartbeatInterval' = FALSE
  /\ refreshTimers' = IF catalogRefreshInterval THEN refreshTimers - 1 ELSE refreshTimers
  /\ catalogRefreshInterval' = FALSE
  /\ isConnectedFlag' = FALSE
  /\ socks' = IF socket = 0 THEN socks
              ELSE IF socks[socket] \in {"CONNECTING", "OPEN"}
                   THEN [socks EXCEPT ![socket] = "CLOSING"]
                   ELSE Release(socks, socket)
  /\ socket' = 0
  /\ lastOp' = [NoOp EXCEPT !.op = "disconnect"]
  /\ UNCHANGED <<config, engineVars, now, reconnectAttempts, reconnectTimers, reqs,
                 syncs, started, everAccepted, lastCloseCode, input, sqlVars, pgVars, authVars>>

HeartbeatTickAfterQueries ==
  /\ hbTimers > 0
  /\ \A id \in DOMAIN reqs : reqs[id].status # "running"
  /\ lastOp' = [NoOp EXCEPT !.op = "heartbeat", !.sent = SendHeartbeat(socks, socket)]
  /\ UNCHANGED <<config, engineVars, now, connVars, timerVars, reqs, syncs, started,
                 everAccepted, lastCloseCode, input, sqlVars, pgVars, authVars>>

\* The callback of the heartbeat setInterval runs.
HeartbeatTick ==
  /\ hbTimers > 0
  /\ lastOp' = [NoOp EXCEPT !.op = "heartbeat", !.sent = SendHeartbeat(socks, socket)]
  /\ UNCHANGED <<config, engineVars, now, connVars, timerVars, reqs, syncs, started,
                 everAccepted, lastCloseCode, input, sqlVars, pgVars, authVars>>

\* WebSocketService.notifyStatusChange: a heartbeat out of cycle.
NotifyStatusChange ==
  /\ lastOp' = [NoOp EXCEPT !.op = "notifyStatusChange",
                            !.sent = SendHeartbeat(socks, socket)]
  /\ UNCHANGED <<config, engineVars, now, connVars, timerVars, reqs, syncs, started,
                 everAccepted, lastCloseCode, input, sqlVars, pgVars, authVars>>

-----------------------------------------------------------------------------
(* The connection lifecycle alone: no inbound traffic. *)

BackoffConfigs ==
  {AppConfig(InitJson(Url("https://", "h", <<>>), "s3cret", "", "CA_PEM", "")),
   AppConfig(InitJson(Url("http://", "h", <<"/">>), "", "CERT_PEM", "CA_PEM", "")),
   AppConfig(InitJson(Url("ftp://", "h", <<>>), "s3cret", "", "CA_PEM", "")),
   AppConfig(InitJson(Url("https://", "h", <<>>), "", "", "", "")),
   AppConfig(InitJson(EmptyUrl, "s3cret", "", "CA_PEM", ""))}

InitClient(configs) ==
  /\ config \in configs
  /\ catalog = Null
  /\ templateHashMap = EmptyMap
  /\ expiresAt = Null
  /\ now = 0
  /\ socks = [i \in Slots |-> "FREE"]
  /\ socket = 0
  /\ reconnectAttempts = 0
  /\ reconnectTimers = <<>>
  /\ hbTimers = 0
  /\ heartbeatInterval = FALSE
  /\ refreshTimers = 0
  /\ catalogRefreshInterval = FALSE
  /\ isConnectedFlag = FALSE
  /\ reqs = <<>>
  /\ syncs = <<>>
  /\ started = FALSE
  /\ everAccepted = FALSE
  /\ lastCloseCode = 0
  /\ lastOp = NoOp
  /\ input = <<>>
  /\ SqlIdle
  /\ AuthIdle
  /\ PgIdle

InitBackoff == InitClient(BackoffConfigs)

NextBackoff ==
  \/ Startup(MaxAttempts)
  \/ \E i \in 1..MaxTimers : ReconnectTimerFires(i, MaxAttempts)
  \/ \E s \in Slots : OpenEvent(s)
  \/ \E s \in Slots, code \in {1000, 1006, 4001} : CloseEvent(s, code, MaxAttempts)
  \/ Disconnect
  \/ HeartbeatTick

SpecBackoff == InitBackoff /\ [][NextBackoff]_vars

-----------------------------------------------------------------------------
(* WebSocketService: inbound events and requests. *)

\* WebSocketService.handleAllowlistSync for a payload carrying catalog c,
\* arriving on socket s; allowlist.sync events and allowlist.refresh responses
\* both end here; op is the record of the step so far.
HandleAllowlistSync(s, c, op) ==
  /\ socks[s] \in {"OPEN", "CLOSING"}
  /\ LET r == UpdateCatalog(config.caCertificate, Engine, c)
     IN  /\ catalog' = r.engine[1]
         /\ templateHashMap' = r.engine[2]
         /\ expiresAt' = r.engine[3]
         /\ IF r.threw = ""
            THEN /\ refreshTimers' =
                      (IF catalogRefreshInterval THEN refreshTimers - 1
                       ELSE refreshTimers) + 1
                 /\ catalogRefreshInterval' = TRUE
                 /\ everAccepted' = TRUE
            ELSE UNCHANGED <<refreshTimers, catalogRefreshInterval, everAccepted>>
         /\ lastOp' = [op EXCEPT !.op = "allowlist.sync", !.outcome = r.threw]
  /\ UNCHANGED <<config, now, connVars, hbTimers, heartbeatInterval, reqs, syncs,
                 started, lastCloseCode, input, sqlVars, pgVars, authVars>>

\* The callback of the catalog-refresh setInterval runs.
RefreshTick ==
  /\ refreshTimers > 0
  /\ lastOp' = [NoOp EXCEPT !.op = "refresh",
                            !.sent = IF SocketOpen(socks, socket)
                                     THEN SendMessage(socks, socket,
                                            Envelope("request", "allowlist.refresh", 0, <<>>))
                                     ELSE <<>>]
  /\ UNCHANGED <<config, engineVars, now, connVars, timerVars, reqs, syncs, started,
                 everAccepted, lastCloseCode, input, sqlVars, pgVars, authVars>>

\* A sql.execute payload; an absent member and an empty one are both <<>>.
Payload(template, params, query) ==
  [present |-> TRUE, template |-> template, params |-> params, query |-> query]

\* A request envelope without a payload member.
NoPayload == [present |-> FALSE, template |-> <<>>, params |-> <<>>, query |-> <<>>]

\* The message of the AllowlistValidationError thrown with a code.
ValidationMessage(code) ==
  CASE code = "CATALOG_MISSING" -> "Query catalog not yet received from server"
    [] code = "CATALOG_EXPIRED" -> "Query catalog has expired - waiting for refresh"
    [] OTHER -> "Template not in approved catalog - execution blocked"

Refused(message) == [error |-> message, handed |-> Null]

HandleSqlExecuteNoValidate(engine, t, payload) ==
  IF ~payload.present THEN Refused("Cannot read properties of undefined")
  ELSE IF payload.template # <<>>
  THEN IF ~HasCatalog(engine)
       THEN Refused("Security: Query catalog not yet received from server")
       ELSE IF IsCatalogExpired(engine, t)
       THEN Refused("Security: Query catalog has expired - waiting for refresh")
       ELSE [error |-> "",
             handed |-> Some(SubstituteParams(payload.template, payload.params))]
  ELSE IF payload.query # <<>>
  THEN IF HasCatalog(engine)
       THEN Refused("Security: Direct queries not allowed - template required")
       ELSE [error |-> "", handed |-> Some(payload.query)]
  ELSE Refused("No query or template provided")

HandleSqlExecuteRawWhenExpired(engine, t, payload) ==
  IF ~payload.present THEN Refused("Cannot read properties of undefined")
  ELSE IF payload.template # <<>>
  THEN IF ~HasCatalog(engine)
       THEN Refused("Security: Query catalog not yet received from server")
       ELSE IF IsCatalogExpired(engine, t)
       THEN Refused("Security: Query catalog has expired - waiting for refresh")
       ELSE IF ValidateTemplate(engine, t, payload.template) # ""
       THEN Refused("Security: "
                    \o ValidationMessage(ValidateTemplate(engine, t, payload.template)))
       ELSE [error |-> "",
             handed |-> Some(SubstituteParams(payload.template, payload.params))]
  ELSE IF payload.query # <<>>
  THEN IF HasCatalog(engine) /\ ~IsCatalogExpired(engine, t)
       THEN Refused("Security: Direct queries not allowed - template required")
       ELSE [error |-> "", handed |-> Some(payload.query)]
  ELSE Refused("No query or template provided")

HandleSqlExecuteOpenBeforeCatalog(engine, t, payload) ==
  IF ~payload.present THEN Refused("Cannot read properties of undefined")
  ELSE IF payload.template # <<>>
  THEN IF HasCatalog(engine) /\ IsCatalogExpired(engine, t)
       THEN Refused("Security: Query catalog has expired - waiting for refresh")
       ELSE IF HasCatalog(engine) /\ ValidateTemplate(engine, t, payload.template) # ""
       THEN Refused("Security: "
                    \o ValidationMessage(ValidateTemplate(engine, t, payload.template)))
       ELSE [error |-> "",
             handed |-> Some(SubstituteParams(payload.template, payload.params))]
  ELSE IF payload.query # <<>>
  THEN IF HasCatalog(engine)
       THEN Refused("Security: Direct queries not allowed - template required")
       ELSE [error |-> "", handed |-> Some(payload.query)]
  ELSE Refused("No query or template provided")

HandleSqlExecuteNormalized(engine, t, payload) ==
  IF ~payload.present THEN Refused("Cannot read properties of undefined")
  ELSE IF payload.template # <<>>
  THEN IF ~HasCatalog(engine)
       THEN Refused("Security: Query catalog not yet received from server")
       ELSE IF IsCatalogExpired(engine, t)
       THEN Refused("Security: Query catalog has expired - waiting for refresh")
       ELSE IF ValidateTemplate(engine, t, payload.template) # ""
       THEN Refused("Security: "
                    \o ValidationMessage(ValidateTemplate(engine, t, payload.template)))
       ELSE [error |-> "",
             handed |-> Some(SubstituteParams(NormalizeTemplate(payload.template),
                                              payload.params))]
  ELSE IF payload.query # <<>>
  THEN IF HasCatalog(engine)
       THEN Refused("Security: Direct queries not allowed - template required")
       ELSE [error |-> "", handed |-> Some(payload.query)]
  ELSE Refused("No query or template provided")

\* WebSocketService.handleSqlExecute up to the call of sqlService.execute: the
\* error of the result it returns at once ("" when it goes on), and the text it
\* passes to sqlService.execute.
HandleSqlExecute(engine, t, payload) ==
  IF ~payload.present THEN Refused("Cannot read properties of undefined")
  ELSE IF payload.template # <<>>
  THEN IF ~HasCatalog(engine)
       THEN Refused("Security: Query catalog not yet received from server")
       ELSE IF IsCatalogExpired(engine, t)
       THEN Refused("Security: Query catalog has expired - waiting for refresh")
       ELSE IF ValidateTemplate(engine, t, payload.template) # ""
       THEN Refused("Security: "
                    \o ValidationMessage(ValidateTemplate(engine, t, payload.template)))
       ELSE [error |-> "",
             handed |-> Some(SubstituteParams(payload.template, payload.params))]
  ELSE IF payload.query # <<>>
  THEN IF HasCatalog(engine)
       THEN Refused("Security: Direct queries not allowed - template required")
       ELSE [error |-> "", handed |-> Some(payload.query)]
  ELSE Refused("No query or template provided")

\* What an awaited backend or file operation does: it returns, or it throws an
\* Error with a message, or it throws a value that is no Error.
Returned == [threw |-> FALSE, isError |-> FALSE, message |-> ""]

Thrown(isError, message) == [threw |-> TRUE, isError |-> isError, message |-> message]

\* error instanceof Error ? error.message : fallback.
ErrorText(outcome, fallback) ==
  IF outcome.isError THEN outcome.message ELSE fallback

\* The result handleSqlExecute returns once sqlService.execute has settled.
SqlResult(outcome) ==
  IF outcome.threw
  THEN [columns |-> <<>>, rows |-> <<>>, rowCount |-> 0,
        error |-> Some(ErrorText(outcome, "SQL execution failed"))]
  ELSE [columns |-> <<"c">>, rows |-> << <<"v">> >>, rowCount |-> 1, error |-> Null]

\* The result handleSqlExecute returns without calling the executor.
SqlRefusal(message) ==
  [columns |-> <<>>, rows |-> <<>>, rowCount |-> 0, error |-> Some(message)]

SendResponseMutant(ss, sk, requestId, action, payload) ==
  SendMessage(ss, sk, Envelope("response", action, requestId, payload))

\* WebSocketService.sendResponse.
SendResponse(ss, sk, requestId, action, payload) ==
  SendMessage(ss, sk, Envelope("response", action \o ".response", requestId, payload))

\* The payload of a file request: its members are there.
FilePayload == [present |-> TRUE, template |-> <<>>, params |-> <<>>, query |-> <<>>]

FileActions == {"file.read", "file.list", "file.search"}

\* The handler reads a member of the payload before it waits for anything:
\* handleFileRead and handleFileList put payload.path into the answer they
\* give when no project path is configured and pass it to the file service
\* otherwise; handleFileSearch reads payload.pattern only when a project
\* path is configured; file.getStructure reads no payload.
ReadsPayload(action, projectPath) ==
  \/ action \in {"file.read", "file.list"}
  \/ action = "file.search" /\ projectPath # ""

\* The try block of handleMessage up to the handler's first wait on the
\* backend or the file system: settled says whether the response is sent in
\* this turn, payload is that response's payload, handed the text passed to
\* sqlService.execute.
Dispatch(action, payload, sqlConfigured) ==
  CASE action = "sql.execute" ->
         LET d == HandleSqlExecute(Engine, now, payload)
         IN  IF d.handed = Null
             THEN [settled |-> TRUE, payload |-> SqlRefusal(d.error), handed |-> Null]
             ELSE IF ~sqlConfigured
             THEN [settled |-> TRUE,
                   payload |-> SqlResult(Thrown(TRUE, "SQL not configured")),
                   handed |-> d.handed]
             ELSE [settled |-> FALSE, payload |-> <<>>, handed |-> d.handed]
    [] action = "sql.testConnection" ->
         IF ~sqlConfigured
         THEN [settled |-> TRUE, payload |-> [error |-> Some("SQL not configured")],
               handed |-> Null]
         ELSE [settled |-> FALSE, payload |-> <<>>, handed |-> Null]
    [] action \in FileActions \cup {"file.getStructure"} ->
         IF ReadsPayload(action, config.projectPath) /\ ~payload.present
         THEN [settled |-> TRUE,
               payload |-> [error |-> Some("Cannot read properties of undefined")],
               handed |-> Null]
         ELSE IF config.projectPath = ""
         THEN [settled |-> TRUE,
               payload |-> [error |-> Some("Project path not configured on agent")],
               handed |-> Null]
         ELSE [settled |-> FALSE, payload |-> <<>>, handed |-> Null]
    [] OTHER ->
         [settled |-> TRUE, payload |-> [error |-> Some("Unknown action: " \o action)],
          handed |-> Null]

\* The payload of the response once the awaited operation has settled:
\* handleSqlExecute, testConnection and the three file handlers catch what
\* they await, scanProjectStructure is caught by handleMessage itself.
Settle(action, outcome) ==
  CASE action = "sql.execute" -> SqlResult(outcome)
    [] action = "sql.testConnection" ->
         [error |-> IF outcome.threw THEN Some(ErrorText(outcome, "Unknown error"))
                    ELSE Null]
    [] action = "file.read" ->
         [error |-> IF outcome.threw THEN Some(ErrorText(outcome, "File read failed"))
                    ELSE Null]
    [] action = "file.list" ->
         [error |-> IF outcome.threw THEN Some(ErrorText(outcome, "File list failed"))
                    ELSE Null]
    [] action = "file.search" ->
         [error |-> IF outcome.threw THEN Some(ErrorText(outcome, "Search failed"))
                    ELSE Null]
    [] OTHER ->
         [error |-> IF outcome.threw THEN Some(ErrorText(outcome, "Unknown error"))
                    ELSE Null]

\* handleMessage for an envelope of type request arriving on socket s, up to
\* the first wait of its handler. reqs keeps the action of a handler that is
\* still waiting and the number of responses sent for each request.
ReceiveRequest(s, action, payload, sqlConfigured) ==
  /\ socks[s] \in {"OPEN", "CLOSING"}
  /\ Len(reqs) < MaxRequests
  /\ LET id == Len(reqs) + 1
         d == Dispatch(action, payload, sqlConfigured)
         sent == IF d.settled
                 THEN SendResponse(socks, socket, id, action, d.payload)
                 ELSE <<>>
     IN  /\ reqs' = Append(reqs, [action |-> IF d.settled THEN "" ELSE action,
                                  status |-> IF d.settled THEN "done" ELSE "running",
                                  responses |-> Len(sent)])
         /\ lastOp' = [NoOp EXCEPT !.op = "request", !.id = id,
                                   !.req = Some([action |-> action, payload |-> payload]),
                                   !.outcome = IF d.settled THEN "settled" ELSE "waiting",
                                   !.handed = d.handed,
                                   !.result = IF d.settled THEN Some(d.payload) ELSE Null,
                                   !.sent = sent]
  /\ UNCHANGED <<config, engineVars, now, connVars, timerVars, syncs, started,
                 everAccepted, lastCloseCode, input, sqlVars, pgVars, authVars>>

\* How a call of the database driver ends: with rows, with an Error carrying a
\* message, with an Error whose message is empty (the AggregateError of a
\* refused connection), with a thrown value that is no Error.
SqlOutcomes ==
  {Returned, Thrown(TRUE, "connection refused"), Thrown(TRUE, ""), Thrown(FALSE, "")}

\* How a call of the file service ends.
FileOutcomes == {Returned, Thrown(TRUE, "operation failed"), Thrown(FALSE, "")}

Outcomes == SqlOutcomes \cup FileOutcomes

OutcomesOf(action) ==
  IF action \in {"sql.execute", "sql.testConnection"} THEN SqlOutcomes ELSE FileOutcomes

CompleteOnArrivalConnection(id, outcome) ==
  /\ id \in DOMAIN reqs
  /\ reqs[id].status = "running"
  /\ outcome \in OutcomesOf(reqs[id].action)
  /\ LET action == reqs[id].action
         sent == IF id \in DOMAIN input /\ input[id].closedBefore # (lastCloseCode # 0)
                 THEN <<>>
                 ELSE SendResponse(socks, socket, id, action, Settle(action, outcome))
     IN  /\ reqs' = [reqs EXCEPT ![id].action = "", ![id].status = "done",
                                 ![id].responses = @ + Len(sent)]
         /\ lastOp' = [NoOp EXCEPT !.op = "complete", !.id = id,
                                   !.req = Some([action |-> action, payload |-> NoPayload]),
                                   !.outcome = "settled",
                                   !.result = Some(Settle(action, outcome)),
                                   !.sent = sent]
  /\ UNCHANGED <<config, engineVars, now, connVars, timerVars, syncs, started,
                 everAccepted, lastCloseCode, input, sqlVars, pgVars, authVars>>

\* The operation request id waits for settles; its handler resumes and
\* handleMessage sends the response.
Complete(id, outcome) ==
  /\ id \in DOMAIN reqs
  /\ reqs[id].status = "running"
  /\ outcome \in OutcomesOf(reqs[id].action)
  /\ LET action == reqs[id].action
         sent == SendResponse(socks, socket, id, action, Settle(action, outcome))
     IN  /\ reqs' = [reqs EXCEPT ![id].action = "", ![id].status = "done",
                                 ![id].responses = @ + Len(sent)]
         /\ lastOp' = [NoOp EXCEPT !.op = "complete", !.id = id,
                                   !.req = Some([action |-> action, payload |-> NoPayload]),
                                   !.outcome = "settled",
                                   !.result = Some(Settle(action, outcome)),
                                   !.sent = sent]
  /\ UNCHANGED <<config, engineVars, now, connVars, timerVars, syncs, started,
                 everAccepted, lastCloseCode, input, sqlVars, pgVars, authVars>>

\* syncProjectData resumes after scanProjectStructure or scanMarkdownFiles
\* settled.
SyncStep(outcome) ==
  /\ syncs # <<>>
  /\ IF outcome.threw
     THEN /\ syncs' = Tail(syncs)
          /\ lastOp' = [NoOp EXCEPT !.op = "sync", !.outcome = "failed"]
     ELSE IF syncs[1] = "scanProjectStructure"
     THEN /\ syncs' = <<"scanMarkdownFiles">> \o Tail(syncs)
          /\ lastOp' = [NoOp EXCEPT !.op = "sync",
                          !.sent = SendMessage(socks, socket,
                                     Envelope("request", "sync.structure", 0, <<>>))]
     ELSE /\ syncs' = Tail(syncs)
          /\ lastOp' = [NoOp EXCEPT !.op = "sync",
                          !.sent = SendMessage(socks, socket,
                                     Envelope("request", "sync.mdFiles", 0, <<>>))]
  /\ UNCHANGED <<config, engineVars, now, connVars, timerVars, reqs, started,
                 everAccepted, lastCloseCode, input, sqlVars, pgVars, authVars>>

-----------------------------------------------------------------------------
(* The client serving a controller. *)

Configs ==
  {AppConfig(InitJson(Url("https://", "h", <<>>), "s3cret", "", "CA_PEM", "")),
   AppConfig(InitJson(Url("http://", "h", <<>>), "s3cret", "", "", "/proj"))}

ClientDocuments ==
  {Document(1, "1970-01-01T00:00:01Z", QueriesAB),
   Document(2, "1970-01-01T00:00:01Z", QueriesA)}

ClientCatalogs == WireCatalogs(ClientDocuments)

SqlPayloads ==
  {Payload(TemplateK, << <<"k", <<"7">>>> >>, <<>>),
   Payload(<<"b">>, <<>>, <<>>),
   Payload(<<>>, <<>>, <<"q">>),
   Payload(TemplateA, <<>>, <<"q">>),
   Payload(<<>>, <<>>, <<>>),
   NoPayload}

RequestActions ==
  {"sql.execute", "sql.testConnection", "file.read", "file.list", "file.search",
   "file.getStructure", "bogus"}

ClientTick == now < MaxClientTime /\ Tick

Init == InitClient(Configs)

Next ==
  \/ Startup(MaxRetries)
  \/ \E i \in 1..MaxTimers : ReconnectTimerFires(i, MaxRetries)
  \/ \E s \in Slots : OpenEvent(s)
  \/ \E s \in Slots, code \in {1000, 1006, 4001} : CloseEvent(s, code, MaxRetries)
  \/ Disconnect
  \/ HeartbeatTick
  \/ NotifyStatusChange
  \/ RefreshTick
  \/ ClientTick
  \/ \E s \in Slots, c \in ClientCatalogs : HandleAllowlistSync(s, c, NoOp)
  \/ \E s \in Slots, p \in SqlPayloads, k \in BOOLEAN :
       ReceiveRequest(s, "sql.execute", p, k)
  \/ \E s \in Slots, a \in RequestActions \ {"sql.execute"}, k \in BOOLEAN :
       ReceiveRequest(s, a, NoPayload, k)
  \/ \E s \in Slots, a \in FileActions :
       ReceiveRequest(s, a, FilePayload, TRUE)
  \/ \E id \in 1..MaxRequests, o \in Outcomes : Complete(id, o)
  \/ \E o \in {Returned, Thrown(TRUE, "scan failed")} : SyncStep(o)

Spec == Init /\ [][Next]_vars

-----------------------------------------------------------------------------
(* Claims about the reconnect backoff (SpecBackoff). *)

C9_Sequence == <<1000, 2000, 4000, 8000, 16000, 30000, 30000>>

C9_Expected(k) == IF k < Len(C9_Sequence) THEN C9_Sequence[k + 1] ELSE 30000

\* C9: every step that schedules a reconnect arms a timer of min(1000 * 2^k,
\* 30000) ms, k being the reconnects scheduled since the last open (or since
\* start), so the delays run 1000, 2000, 4000, 8000, 16000, 30000, 30000 and
\* never exceed 30000; the attempt counter starts at 0, grows by one with each
\* scheduled reconnect, and is set back to 0 by the open handler and by no
\* other step.
C9_BackoffSequence ==
  [][/\ lastOp'.delay # 0 =>
          /\ lastOp'.delay = C9_Expected(reconnectAttempts)
          /\ lastOp'.delay <= 30000
          /\ reconnectAttempts' = reconnectAttempts + 1
          /\ reconnectTimers' # <<>>
          /\ reconnectTimers'[Len(reconnectTimers')] = lastOp'.delay
     /\ lastOp'.delay = 0 =>
          /\ Len(reconnectTimers') <= Len(reconnectTimers)
          /\ reconnectAttempts' # reconnectAttempts => lastOp'.op = "open"
     /\ lastOp'.op = "open" => reconnectAttempts' = 0
     /\ ~started => reconnectAttempts = 0]_vars

\* The seventh reconnect in a row has been scheduled, 30000 ms ahead.
C9_Witness ==
  /\ reconnectAttempts = 7
  /\ lastOp.delay = 30000
  /\ reconnectTimers = <<30000>>

-----------------------------------------------------------------------------
(* Claims about the client serving a controller (Spec). *)

\* C10: a close with code 4001 schedules no reconnect timer and leaves none
\* pending, and from then on the client never calls connect again: no later
\* step is a connection attempt, arms a timer or reports another close.
C10_AuthFailedIsSticky ==
  [][/\ (lastOp'.op = "close" /\ lastOp'.code = 4001) =>
          /\ reconnectTimers' = reconnectTimers
          /\ reconnectTimers' = <<>>
          /\ reconnectAttempts' = reconnectAttempts
     /\ lastCloseCode = 4001 =>
          /\ lastCloseCode' = 4001
          /\ lastOp'.op # "connect"
          /\ reconnectTimers' = <<>>
          /\ \A s \in Slots : socks'[s] \notin {"CONNECTING", "OPEN"}]_vars

\* Some step after a 4001 close: the client sits there without a timer.
C10_Witness ==
  /\ lastCloseCode = 4001
  /\ lastOp.op \in {"disconnect", "tick", "refresh"}
  /\ reconnectTimers = <<>>

\* The request of the step just taken, when it was a sql.execute request.
LastSqlRequest == lastOp.op = "request" /\ lastOp.req[1].action = "sql.execute"

\* C1: once a catalog has been accepted, a step passes text to the executor
\* for a sql.execute request only when the request carries a template whose
\* normalized hash is a value of the stored catalog and the catalog has not
\* expired at that step; text is passed on by no other kind of step.
C1_OnlyApprovedTemplatesExecute ==
  /\ lastOp.handed # Null => LastSqlRequest
  /\ (everAccepted /\ lastOp.handed # Null) =>
       /\ lastOp.req[1].payload.template # <<>>
       /\ catalog # Null
       /\ expiresAt # Null
       /\ ~(now > expiresAt[1])
       /\ \E i \in 1..Len(catalog[1].queries) :
            catalog[1].queries[i][2] = HashTemplate(lastOp.req[1].payload.template)

\* An approved template with its parameter substituted went to the executor.
C1_Witness ==
  /\ everAccepted
  /\ LastSqlRequest
  /\ lastOp.req[1].payload.template = TemplateK
  /\ lastOp.handed = Some(<<"a", " ", "7">>)

\* A sql.execute request carrying a raw query and no template.
LastRawRequest ==
  /\ LastSqlRequest
  /\ lastOp.req[1].payload.present
  /\ lastOp.req[1].payload.template = <<>>
  /\ lastOp.req[1].payload.query # <<>>

\* C2: a raw-query sql.execute request is passed to the executor exactly when
\* no catalog has ever been accepted; once one has been, the request gets an
\* error result without reaching the executor, whatever happened since
\* (expiry, a sync that failed verification, disconnects and reconnects).
C2_RawQueryOnlyBeforeFirstCatalog ==
  LastRawRequest =>
    /\ lastOp.handed # Null <=> ~everAccepted
    /\ ~everAccepted => lastOp.handed = Some(lastOp.req[1].payload.query)
    /\ everAccepted =>
         /\ lastOp.result # Null
         /\ lastOp.result[1].error # Null
         /\ lastOp.result[1].error[1] # ""
         /\ lastOp.result[1].rows = <<>>

\* A raw query refused after the catalog expired and the connection had been
\* lost once.
C2_Witness ==
  /\ LastRawRequest
  /\ everAccepted
  /\ expiresAt # Null /\ now > expiresAt[1]
  /\ lastCloseCode # 0
  /\ lastOp.handed = Null

\* C3: a catalog whose signature is not the controller's signature over the
\* canonical form of its own expires_at, generated_at, queries and version
\* makes updateCatalog throw SIGNATURE_INVALID; the stored catalog, the expiry
\* and the reverse map stay what they were, and the allowlist.sync that carried
\* it changes nothing else either: no timer, no socket, nothing sent.
C3_InvalidSignatureChangesNothing ==
  [][\A s \in Slots, c \in ClientCatalogs :
       (HandleAllowlistSync(s, c, NoOp) /\ c.signature # Sign("caKey", c)) =>
         /\ lastOp'.outcome = "SIGNATURE_INVALID"
         /\ UNCHANGED <<catalog, templateHashMap, expiresAt>>
         /\ UNCHANGED <<refreshTimers, catalogRefreshInterval, everAccepted>>
         /\ UNCHANGED <<connVars, hbTimers, heartbeatInterval, reqs>>
         /\ lastOp'.sent = <<>>]_vars

\* A sync that failed verification while an older catalog was stored.
C3_Witness ==
  /\ lastOp.op = "allowlist.sync"
  /\ lastOp.outcome = "SIGNATURE_INVALID"
  /\ catalog # Null
  /\ catalog[1].version = 2

\* C7: no request ever has two responses, and none while its handler waits;
\* when a request's handling ends, returned or thrown, exactly one response
\* envelope goes out, with the request's id and its action followed by
\* ".response", unless the current socket is not open, in which case the
\* request is abandoned and nothing goes out.
C7_ExactlyOneResponse ==
  /\ \A id \in DOMAIN reqs :
       /\ reqs[id].responses <= 1
       /\ reqs[id].status = "running" => reqs[id].responses = 0
  /\ (lastOp.op \in {"request", "complete"} /\ lastOp.outcome = "settled") =>
       /\ reqs[lastOp.id].status = "done"
       /\ reqs[lastOp.id].responses = Len(lastOp.sent)
       /\ IF socket # 0 /\ socks[socket] = "OPEN"
          THEN lastOp.sent = << [type |-> "response",
                                 action |-> lastOp.req[1].action \o ".response",
                                 id |-> lastOp.id,
                                 payload |-> lastOp.result[1]] >>
          ELSE lastOp.sent = <<>>
  /\ (lastOp.op = "request" /\ lastOp.outcome = "waiting") =>
       /\ lastOp.sent = <<>>
       /\ reqs[lastOp.id].status = "running"

\* scanProjectStructure threw inside handleMessage's try block and the one
\* response carrying the error went out.
C7_Witness ==
  /\ lastOp.op = "complete"
  /\ lastOp.req[1].action = "file.getStructure"
  /\ lastOp.result[1].error = Some("operation failed")
  /\ Len(lastOp.sent) = 1
  /\ lastOp.sent[1].action = "file.getStructure.response"

\* C8: every failed sql.execute gives a result with no columns, no rows, a
\* row count of 0 and a non-empty error text.
C8_AsClaimed ==
  (/\ lastOp.op \in {"request", "complete"}
   /\ lastOp.req[1].action = "sql.execute"
   /\ lastOp.outcome = "settled"
   /\ lastOp.result[1].error # Null) =>
     /\ lastOp.result[1].columns = <<>>
     /\ lastOp.result[1].rows = <<>>
     /\ lastOp.result[1].rowCount = 0
     /\ lastOp.result[1].error[1] # ""

-----------------------------------------------------------------------------
(* The connection lifecycle with its scheduling: an armed reconnect timer
   fires, a closing socket reports its close (the library times a close
   handshake out), and a controller that is reachable again and again
   eventually completes a handshake. *)

TimerFires == \E i \in 1..MaxTimers : ReconnectTimerFires(i, MaxAttempts)

HandshakeCompletes == \E s \in Slots : OpenEvent(s)

ClosingSocketCloses ==
  \E s \in Slots, code \in {1000, 1006, 4001} :
    socks[s] = "CLOSING" /\ CloseEvent(s, code, MaxAttempts)

SpecLive ==
  /\ InitBackoff
  /\ [][NextBackoff]_vars
  /\ WF_vars(TimerFires)
  /\ WF_vars(ClosingSocketCloses)
  /\ SF_vars(HandshakeCompletes)

\* The step just taken was a close that asks for a reconnect.
ClosedRetriable == lastOp.op = "close" /\ lastOp.code # 4001

\* C11: with timers that fire, every close with a code other than 4001 is
\* followed by a call of connect, and every connect that threw is followed by
\* the next one; and when the controller never answers 4001 and completes a
\* handshake if given the chance again and again, every such close is followed
\* by a state in which the client is connected again. (The reconnect counter
\* is followed up to MaxAttempts.)
C11_EventuallyReconnects ==
  /\ ClosedRetriable ~> (lastOp.op = "connect")
  /\ \A k \in 1..(MaxAttempts - 1) :
       (lastOp.op = "connect" /\ lastOp.outcome = "threw" /\ reconnectAttempts = k)
         ~> (lastOp.op = "connect" /\ reconnectAttempts = k + 1)
  /\ ([](lastCloseCode # 4001) /\ [](reconnectAttempts < MaxAttempts))
       => (ClosedRetriable ~> (isConnectedFlag /\ SocketOpen(socks, socket)))

\* Connected again after a connection was lost.
C11_Witness ==
  /\ lastCloseCode \in {1000, 1006}
  /\ lastOp.op = "open"
  /\ isConnectedFlag
  /\ SocketOpen(socks, socket)

\* Sockets that can still raise an event.
AliveSockets == {s \in Slots : socks[s] \in {"CONNECTING", "OPEN", "CLOSING"}}

\* C12: connecting or open sockets and pending reconnect timers number at
\* most one together, also when sockets still closing are counted as alive: no
\* reconnect is scheduled while a timer is pending or a socket is alive, and no
\* socket is created while another is alive.
C12_AtMostOneSocketOrTimer ==
  /\ Cardinality({s \in Slots : socks[s] \in {"CONNECTING", "OPEN"}})
       + Len(reconnectTimers) <= 1
  /\ Cardinality(AliveSockets) + Len(reconnectTimers) <= 1
  /\ lastOp.delay # 0 => (reconnectTimers = <<lastOp.delay>> /\ AliveSockets = {})
  /\ (lastOp.op = "connect" /\ lastOp.outcome = "socket created") =>
       (AliveSockets = {socket} /\ reconnectTimers = <<>>)

\* A reconnect is pending after the socket closed following disconnect().
C12_Witness ==
  /\ Len(reconnectTimers) = 1
  /\ AliveSockets = {}
  /\ socket = 0
  /\ lastOp.op = "close"

-----------------------------------------------------------------------------
(* connect() called once on any configuration, whether or not start() would
   have called it. *)

ConnectUrls == {EmptyUrl, Url("https://", "h", <<>>), Url("ftp://", "h", <<>>)}

\* init.json contents: with and without a secret, a certificate, a private key.
ConnectConfigs ==
  {AppConfig([serverUrl |-> u, clientId |-> "client-1", clientSecret |-> sec,
              certificate |-> cert, privateKey |-> key, caCertificate |-> "CA_PEM",
              projectPath |-> ""]) :
     u \in ConnectUrls, sec \in {"", "s3cret"}, cert \in {"", "CERT_PEM"},
     key \in {"", "KEY_PEM"}}

InitConnect == InitClient(ConnectConfigs)

\* WebSocketService.connect called directly.
CallConnect(cap) ==
  /\ ~started
  /\ Connect(reconnectTimers, cap)
  /\ started' = TRUE
  /\ UNCHANGED <<config, engineVars, now, timerVars, isConnectedFlag, reqs, syncs,
                 everAccepted, lastCloseCode, input, sqlVars, pgVars, authVars>>

NextConnect ==
  \/ CallConnect(MaxRetries)
  \/ \E i \in 1..MaxTimers : ReconnectTimerFires(i, MaxRetries)
  \/ \E s \in Slots : OpenEvent(s)
  \/ \E s \in Slots, code \in {1000, 1006, 4001} : CloseEvent(s, code, MaxRetries)
  \/ Disconnect
  \/ HeartbeatTick

SpecConnect == InitConnect /\ [][NextConnect]_vars

\* Neither certificate with private key nor client secret, or no server URL.
Unconfigured ==
  \/ (~(config.certificate # "" /\ config.privateKey # "") /\ config.clientSecret = "")
  \/ config.serverUrl = EmptyUrl

\* C13: with authentication mode none or without a server URL, connect()
\* creates no socket and schedules no reconnect, and the client is
\* disconnected in every state.
C13_UnconfiguredNeverConnects ==
  Unconfigured =>
    /\ \A s \in Slots : socks[s] = "FREE"
    /\ socket = 0
    /\ reconnectTimers = <<>>
    /\ reconnectAttempts = 0
    /\ ~isConnectedFlag
    /\ lastOp.delay = 0
    /\ lastOp.op = "connect" => lastOp.outcome = "not configured"

\* connect() returned at once: a certificate without its key and no secret.
C13_Witness ==
  /\ config.certificate # "" /\ config.privateKey = "" /\ config.clientSecret = ""
  /\ config.serverUrl # EmptyUrl
  /\ lastOp.op = "connect"
  /\ lastOp.outcome = "not configured"

\* A sql.execute request carrying a template.
LastTemplateRequest ==
  /\ LastSqlRequest
  /\ lastOp.req[1].payload.present
  /\ lastOp.req[1].payload.template # <<>>

\* C14: a template request handled before any catalog was accepted is refused
\* at once with the error of the missing catalog (the text validateTemplate
\* gives its CATALOG_MISSING error, behind "Security: "), the result is empty,
\* and nothing is passed to the executor.
C14_TemplateBeforeCatalogRefused ==
  (LastTemplateRequest /\ ~everAccepted) =>
    /\ lastOp.handed = Null
    /\ lastOp.outcome = "settled"
    /\ ValidateTemplate(Engine, now, lastOp.req[1].payload.template) = "CATALOG_MISSING"
    /\ lastOp.result =
         Some([columns |-> <<>>, rows |-> <<>>, rowCount |-> 0,
               error |-> Some("Security: Query catalog not yet received from server")])
    /\ lastOp.result[1].error = Some("Security: " \o ValidationMessage("CATALOG_MISSING"))

\* The template a later catalog approves, refused before the first sync on an
\* open connection.
C14_Witness ==
  /\ LastTemplateRequest
  /\ ~everAccepted
  /\ lastOp.req[1].payload.template = TemplateK
  /\ Len(lastOp.sent) = 1

-----------------------------------------------------------------------------
(* substituteParams exercised alone on a template and a params object.     *)

PlaceholderK == <<"{", "{", "k", "}", "}">>

PlaceholderDot == <<"{", "{", ".", "}", "}">>

\* The pieces templates are put together from.
ParamPieces == {PlaceholderK, PlaceholderDot, <<"x">>, <<"{">>, <<"}">>, <<" ">>}

\* The concatenations of at most n pieces.
RECURSIVE PiecesUpTo(_, _)
PiecesUpTo(pieces, n) ==
  IF n = 0 THEN {<<>>}
  ELSE LET shorter == PiecesUpTo(pieces, n - 1)
       IN  shorter \cup {t \o q : t \in shorter, q \in pieces}

ParamTemplates == PiecesUpTo(ParamPieces, MaxPieces)

\* Keys of the params object. A key is spliced into the pattern as written;
\* of the characters offered only "." has a meaning of its own there.
ParamKeys == {<<"k">>, <<".">>, <<"x">>}

\* The text '42; DROP TABLE x'.
DropTableValue ==
  <<"4", "2", ";", " ", "D", "R", "O", "P", " ",
    "T", "A", "B", "L", "E", " ", "x">>

ParamValues ==
  {<<>>, <<"7">>, <<"x", ";">>, <<"-", "-", "'", "\n">>,
   <<"a", "_", ".", "[", "7", "]", "'", "B">>, DropTableValue}

\* The params objects: entries in insertion order, no key twice.
ParamObjects ==
  LET entries == {<<k, v>> : k \in ParamKeys, v \in ParamValues}
  IN  {<<>>} \cup {<<e>> : e \in entries}
        \cup {p \in {<<e, f>> : e \in entries, f \in entries} : p[1][1] # p[2][1]}

InitParams ==
  /\ config = [caCertificate |-> "CA_PEM"]
  /\ catalog = Null
  /\ templateHashMap = EmptyMap
  /\ expiresAt = Null
  /\ now = 0
  /\ lastOp = NoOp
  /\ input \in [template : ParamTemplates, params : ParamObjects]
  /\ ClientIdle

ParSubstituteParams ==
  /\ lastOp' = [NoOp EXCEPT !.op = "substituteParams",
                            !.template = Some(input.template),
                            !.result = Some(SubstituteParams(input.template, input.params))]
  /\ UNCHANGED <<config, engineVars, now, clientVars>>

ParSanitizeParam(i) ==
  /\ i \in DOMAIN input.params
  /\ lastOp' = [NoOp EXCEPT !.op = "sanitizeParam",
                            !.id = i,
                            !.result = Some(SanitizeParam(input.params[i][2]))]
  /\ UNCHANGED <<config, engineVars, now, clientVars>>

\* sanitizeParam applied to the text sanitizeParam returned.
ParSanitizeAgain ==
  /\ lastOp.op = "sanitizeParam"
  /\ lastOp.handed = Null
  /\ lastOp' = [lastOp EXCEPT !.handed = lastOp.result,
                              !.result = Some(SanitizeParam(lastOp.result[1]))]
  /\ UNCHANGED <<config, engineVars, now, clientVars>>

NextParams ==
  \/ ParSubstituteParams
  \/ \E i \in 1..2 : ParSanitizeParam(i)
  \/ ParSanitizeAgain

SpecParams == InitParams /\ [][NextParams]_vars

\* The index of the first entry of params whose placeholder {{key}} stands,
\* character for character, at index i of s; 0 when there is none.
RECURSIVE LiteralEntryAt(_, _, _, _)
LiteralEntryAt(s, i, params, n) ==
  IF n > Len(params) THEN 0
  ELSE IF MatchesAt(s, i, <<"{", "{">> \o params[n][1] \o <<"}", "}">>) THEN n
  ELSE LiteralEntryAt(s, i, params, n + 1)

\* The template with every literal {{key}} of a key in params replaced by the
\* sanitized value, and every other character kept.
RECURSIVE LiteralSubstitute(_, _, _)
LiteralSubstitute(s, i, params) ==
  IF i > Len(s) THEN <<>>
  ELSE LET n == LiteralEntryAt(s, i, params, 1)
       IN  IF n = 0 THEN <<s[i]>> \o LiteralSubstitute(s, i + 1, params)
           ELSE SanitizeParam(params[n][2])
                  \o LiteralSubstitute(s, i + Len(params[n][1]) + 4, params)

\* C15: substituteParams changes the template only at the occurrences of the
\* literal placeholder {{key}} of the keys in params, replaces every such
\* occurrence with the sanitized value, and keeps every other character.
C15_AsClaimed ==
  lastOp.op = "substituteParams" =>
    lastOp.result = Some(LiteralSubstitute(input.template, 1, input.params))

\* The characters sanitizeParam is documented to keep, among those of the
\* model's alphabet: ASCII letters, digits, underscore, dot and the brackets.
KeptChars ==
  {"a", "b", "k", "x", "A", "B", "D", "E", "L", "O", "P", "R", "T",
   "7", "4", "2", "_", ".", "[", "]"}

\* r is v with exactly the characters outside KeptChars deleted: the j-th
\* character of r is the character at the j-th kept index of v.
IsDeletionOf(r, v) ==
  LET kept == {i \in 1..Len(v) : v[i] \in KeptChars}
  IN  /\ Len(r) = Cardinality(kept)
      /\ \A i \in kept : r[Cardinality({m \in kept : m <= i})] = v[i]

-----------------------------------------------------------------------------
(* hashTemplate exercised alone on a template and on texts that differ     *)
(* from it in comments and whitespace only.                                *)

\* The pieces templates are put together from.
NormPieces ==
  {<<"a">>, <<"b">>, <<" ">>, <<"\n">>, <<"-", "-">>, <<"/", "*">>, <<"*", "/">>}

\* The text 'SELECT 1 -- note\n  WHERE x=1'.
SelectWithNote ==
  <<"S", "E", "L", "E", "C", "T", " ", "1", " ", "-", "-", " ", "n", "o", "t", "e",
    "\n", " ", " ", "W", "H", "E", "R", "E", " ", "x", "=", "1">>

\* The text 'SELECT 1 WHERE x=1'.
SelectPlain ==
  <<"S", "E", "L", "E", "C", "T", " ", "1", " ",
    "W", "H", "E", "R", "E", " ", "x", "=", "1">>

NormTemplates ==
  PiecesUpTo(NormPieces, MaxNormPieces) \cup {SelectWithNote, SelectPlain}

\* SQL comments read left to right: "--" opens a comment that runs to the end
\* of the line, "/*" one that runs to the next "*/"; a "/*" with no "*/" after
\* it is text. The result is s without its comments.
RECURSIVE WithoutComments(_, _)
WithoutComments(s, i) ==
  IF i > Len(s) THEN <<>>
  ELSE IF MatchesAt(s, i, <<"-", "-">>)
  THEN LET ends == {j \in (i + 2)..Len(s) : s[j] \in LineTerminators}
       IN  IF ends = {} THEN <<>>
           ELSE WithoutComments(s, CHOOSE j \in ends : \A m \in ends : j <= m)
  ELSE IF MatchesAt(s, i, <<"/", "*">>)
          /\ \E j \in (i + 2)..(Len(s) - 1) : MatchesAt(s, j, <<"*", "/">>)
  THEN LET closers == {j \in (i + 2)..(Len(s) - 1) : MatchesAt(s, j, <<"*", "/">>)}
       IN  WithoutComments(s, 2 + CHOOSE j \in closers : \A m \in closers : j <= m)
  ELSE <<s[i]>> \o WithoutComments(s, i + 1)

\* s without its comments, whitespace runs as one space, ends trimmed: the
\* text two templates share when they differ in comments and whitespace only.
CommentFreeForm(s) == Trim(CollapseWhitespace(WithoutComments(s, 1), 1))

\* Texts that differ from t in comments and whitespace only.
NormVariants == {"asWritten", "commentFree", "blockPrefixed", "lineSuffixed"}

NormVariant(t, v) ==
  CASE v = "asWritten" -> t
    [] v = "commentFree" -> CommentFreeForm(t)
    [] v = "blockPrefixed" -> <<"/", "*", "c", "*", "/", "\t">> \o t
    [] v = "lineSuffixed" -> t \o <<" ", " ", "-", "-", "c">>

InitNormalize ==
  /\ config = [caCertificate |-> "CA_PEM"]
  /\ catalog = Null
  /\ templateHashMap = EmptyMap
  /\ expiresAt = Null
  /\ now = 0
  /\ lastOp = NoOp
  /\ input \in NormTemplates
  /\ ClientIdle

NrmHashTemplate(t) ==
  /\ lastOp' = [NoOp EXCEPT !.op = "hashTemplate",
                            !.template = Some(t),
                            !.result = Some(HashTemplate(t))]
  /\ UNCHANGED <<config, engineVars, now, clientVars>>

NextNormalize == \E v \in NormVariants : NrmHashTemplate(NormVariant(input, v))

SpecNormalize == InitNormalize /\ [][NextNormalize]_vars

\* C16: two templates that differ only in "--" line comments, "/* */" block
\* comments and the amount or kind of whitespace have the same hash; the
\* texts 'SELECT 1 -- note\n  WHERE x=1' and 'SELECT 1 WHERE x=1' do.
C16_AsClaimed ==
  lastOp.op = "hashTemplate" =>
    /\ CommentFreeForm(lastOp.template[1]) = CommentFreeForm(input) =>
         lastOp.result[1] = HashTemplate(input)
    /\ lastOp.template[1] = SelectWithNote =>
         lastOp.result[1] = HashTemplate(SelectPlain)

-----------------------------------------------------------------------------
(* buildWebSocketConnection exercised alone, on the configurations connect() *)
(* passes its guards with.                                                  *)

TargetSchemes == {"http://", "https://", "ws://", "wss://"}

TargetPaths ==
  {<<>>, <<"/">>, ProbePath, ProbePath \o <<"/">>, <<"/", "x">>, <<"/", "x", "/">>}

\* init.json contents: every scheme, with and without a secret, a certificate,
\* a private key and a CA certificate.
TargetConfigs ==
  {AppConfig([serverUrl |-> Url(sch, "h", path), clientId |-> "client-1",
              clientSecret |-> sec, certificate |-> cert, privateKey |-> key,
              caCertificate |-> ca, projectPath |-> ""]) :
     sch \in TargetSchemes, path \in TargetPaths, sec \in {"", "s3cret"},
     cert \in {"", "CERT_PEM"}, key \in {"", "KEY_PEM"}, ca \in {"", "CA_PEM"}}

InitTarget == InitClient(TargetConfigs)

\* connect() up to and including its call of buildWebSocketConnection.
TgtBuildWebSocketConnection ==
  /\ ~(config.serverUrl = EmptyUrl \/ config.authMode = "none")
  /\ lastOp' = [NoOp EXCEPT
                  !.op = "buildWebSocketConnection",
                  !.result = Some(BuildWebSocketConnection(config).wsUrl),
                  !.handed = Some(BuildWebSocketConnection(config).wsOptions)]
  /\ UNCHANGED <<config, engineVars, now, connVars, timerVars, reqs, syncs,
                 started, everAccepted, lastCloseCode, input, sqlVars, pgVars, authVars>>

NextTarget == TgtBuildWebSocketConnection

SpecTarget == InitTarget /\ [][NextTarget]_vars

\* C19: for a server URL with scheme http, https, ws or wss, in
\* authentication mode certificate the connection target connect() builds
\* uses the scheme wss, never a plain-text one.
C19_AsClaimed ==
  (/\ lastOp.op = "buildWebSocketConnection"
   /\ config.authMode = "certificate"
   /\ config.serverUrl.scheme \in TargetSchemes) =>
     lastOp.result[1].scheme = "wss://"

-----------------------------------------------------------------------------
(* The SqlService alone: any caller, any order of calls, the database and   *)
(* its pool behaving as they like.                                          *)

sqlFrame ==
  <<config, catalog, templateHashMap, expiresAt, now, socks, socket,
    reconnectAttempts, reconnectTimers, hbTimers, heartbeatInterval,
    refreshTimers, catalogRefreshInterval, isConnectedFlag, reqs, syncs,
    started, everAccepted, lastCloseCode, input, pgVars, authVars>>

InitSql ==
  /\ config = [caCertificate |-> "CA_PEM"]
  /\ catalog = Null
  /\ templateHashMap = EmptyMap
  /\ expiresAt = Null
  /\ now = 0
  /\ lastOp = NoOp
  /\ input = <<>>
  /\ ClientIdle

\* PostgresDriver.disconnect on a pool whose end() was already called and has
\* not settled: pg's Pool.end() rejects a second call, and the await throws.
DisconnectRejects(service) ==
  /\ service.driver # 0
  /\ service.dbType = "postgres"
  /\ service.pool = "ending"

\* SqlService.configure up to "await this.disconnect()"; op is the record of
\* the caller's step. When the disconnect rejects, configure() rejects with
\* it and never reaches createDriver.
SqConfigure(c, op) ==
  LET cfg == [c EXCEPT !.dbType = IF c.dbType = "" THEN "mssql" ELSE c.dbType]
      connectionChanged == sqlService.config = Null \/ sqlService.config[1] # cfg
  IN  /\ sqlCalls.configured < MaxConfigures
      /\ IF ~connectionChanged /\ sqlService.driver # 0
         THEN /\ sqlService' = [sqlService EXCEPT !.config = Some(cfg)]
              /\ sqlCalls' = [sqlCalls EXCEPT !.configured = @ + 1]
              /\ lastOp' = [op EXCEPT !.op = "configure", !.outcome = "unchanged"]
         ELSE IF DisconnectRejects(sqlService)
         THEN /\ sqlService' = [sqlService EXCEPT !.config = Some(cfg),
                                                  !.lastTestSuccess = FALSE]
              /\ sqlCalls' = [sqlCalls EXCEPT !.configured = @ + 1]
              /\ lastOp' = [op EXCEPT !.op = "configure", !.outcome = "rejected"]
         ELSE /\ sqlService' =
                   [sqlService EXCEPT
                      !.config = Some(cfg),
                      !.lastTestSuccess = FALSE,
                      !.pool = IF sqlService.driver # 0 /\ @ # "none"
                               THEN "ending" ELSE @]
              /\ sqlCalls' = [sqlCalls EXCEPT
                                !.configured = @ + 1,
                                !.configures = Append(@, cfg.dbType)]
              /\ lastOp' = [op EXCEPT !.op = "configure", !.outcome = "changed"]
      /\ testedOk' = FALSE
      /\ UNCHANGED sqlFrame

\* POST /sql/configure: the handler builds the SqlConfig, saves it to
\* sql-config.json and calls configure(); when the save throws it answers 400
\* and configure() is not called.
ApiSqlConfigure(body, saved) ==
  IF saved
  THEN SqConfigure(ApiSqlConfig(body),
                   [NoOp EXCEPT !.req = Some(body), !.handed = sqlService.config])
  ELSE /\ lastOp' = [NoOp EXCEPT !.op = "POST /sql/configure", !.outcome = "400"]
       /\ UNCHANGED <<sqlVars, sqlFrame>>

\* configure() resumes after the disconnect and replaces the driver.
SqConfigureResumes ==
  /\ sqlCalls.configures # <<>>
  /\ sqlService' = [sqlService EXCEPT !.driver = @ + 1,
                                      !.dbType = Head(sqlCalls.configures),
                                      !.pool = "none"]
  /\ sqlCalls' = [sqlCalls EXCEPT !.configures = Tail(@)]
  /\ lastOp' = [NoOp EXCEPT
                  !.op = "configure",
                  !.outcome = "driver created",
                  !.handed = IF sqlService.driver = 0 THEN Null
                             ELSE Some(sqlService.dbType)]
  /\ UNCHANGED <<testedOk, sqlFrame>>

\* SqlService.testConnection is called: connect() throws when nothing was
\* configured, else it calls driver.connect and waits.
SqTestConnection(t) ==
  /\ sqlCalls.tests[t].pc = "unused"
  /\ \A u \in 1..(t - 1) : sqlCalls.tests[u].pc # "unused"
  /\ IF sqlService.config = Null
     THEN /\ sqlService' = [sqlService EXCEPT !.lastTestSuccess = FALSE]
          /\ sqlCalls' = [sqlCalls EXCEPT !.tests[t].pc = "done"]
          /\ testedOk' = FALSE
          /\ lastOp' = [NoOp EXCEPT !.op = "testConnection", !.id = t,
                                    !.outcome = "failed"]
     ELSE /\ sqlService' = SqlConnectCalled(sqlService)
          /\ sqlCalls' = [sqlCalls EXCEPT
                            !.tests[t] = [pc |-> "connect",
                                          driver |-> SqlConnectCalled(sqlService).driver]]
          /\ lastOp' = [NoOp EXCEPT !.op = "testConnection", !.id = t,
                                    !.outcome = "connecting"]
          /\ UNCHANGED testedOk
  /\ UNCHANGED sqlFrame

\* driver.connect settles for a testConnection call. Resolved, the call goes
\* on to execute(), which connects again when the service's driver does not
\* report connected, and else hands 'SELECT 1 AS test' to the driver.
\* Rejected, the catch block records the failure.
SqConnectSettles(t, ok) ==
  LET settled == SqlConnectSettled(sqlService, sqlCalls.tests[t].driver, ok)
  IN  /\ sqlCalls.tests[t].pc = "connect"
      /\ IF ~ok
         THEN /\ sqlService' = [settled EXCEPT !.lastTestSuccess = FALSE]
              /\ sqlCalls' = [sqlCalls EXCEPT !.tests[t].pc = "done"]
              /\ testedOk' = FALSE
              /\ lastOp' = [NoOp EXCEPT !.op = "testConnection", !.id = t,
                                        !.outcome = "failed"]
         ELSE IF ~DriverIsConnected(settled)
         THEN /\ sqlService' = SqlConnectCalled(settled)
              /\ sqlCalls' = [sqlCalls EXCEPT !.tests[t].driver = settled.driver]
              /\ lastOp' = [NoOp EXCEPT !.op = "testConnection", !.id = t,
                                        !.outcome = "connecting"]
              /\ UNCHANGED testedOk
         ELSE /\ sqlService' = settled
              /\ sqlCalls' = [sqlCalls EXCEPT !.tests[t].pc = "query"]
              /\ lastOp' = [NoOp EXCEPT !.op = "testConnection", !.id = t,
                                        !.outcome = "querying"]
              /\ UNCHANGED testedOk
      /\ UNCHANGED sqlFrame

\* The test query settles: with rows, without rows, or rejected.
SqQuerySettles(t, outcome) ==
  /\ sqlCalls.tests[t].pc = "query"
  /\ sqlService' = [sqlService EXCEPT !.lastTestSuccess = (outcome = "rows")]
  /\ sqlCalls' = [sqlCalls EXCEPT !.tests[t].pc = "done"]
  /\ testedOk' = (outcome = "rows")
  /\ lastOp' = [NoOp EXCEPT !.op = "testConnection", !.id = t,
                            !.outcome = IF outcome = "rows" THEN "succeeded"
                                        ELSE "failed"]
  /\ UNCHANGED sqlFrame

\* The pool loses its connections while idle.
SqPoolDrops ==
  /\ sqlService.driver # 0
  /\ sqlService.pool = "up"
  /\ sqlService' = [sqlService EXCEPT !.pool = "down"]
  /\ lastOp' = [NoOp EXCEPT !.op = "poolDrops"]
  /\ UNCHANGED <<sqlCalls, testedOk, sqlFrame>>

\* SqlService.execute for a query request, taken as one step: it connects
\* when the driver does not report connected, then runs the query.
SqExecute(ok) ==
  /\ IF sqlService.driver # 0 /\ DriverIsConnected(sqlService)
     THEN UNCHANGED sqlService
     ELSE IF sqlService.config = Null
     THEN UNCHANGED sqlService
     ELSE sqlService' = SqlConnectSettled(SqlConnectCalled(sqlService),
                                          SqlConnectCalled(sqlService).driver, ok)
  /\ lastOp' = [NoOp EXCEPT !.op = "execute"]
  /\ UNCHANGED <<sqlCalls, testedOk, sqlFrame>>

\* SqlService.isConnected is read (the heartbeat does).
SqIsConnected ==
  /\ lastOp' = [NoOp EXCEPT !.op = "isConnected",
                            !.result = Some(SqlIsConnected(sqlService))]
  /\ UNCHANGED <<sqlVars, sqlFrame>>

NextSql ==
  \/ \E c \in SqlConfigs : SqConfigure(c, NoOp)
  \/ \E b \in SqlConfigureBodies, saved \in BOOLEAN : ApiSqlConfigure(b, saved)
  \/ SqConfigureResumes
  \/ \E t \in 1..MaxTests : SqTestConnection(t)
  \/ \E t \in 1..MaxTests, ok \in BOOLEAN : SqConnectSettles(t, ok)
  \/ \E t \in 1..MaxTests, o \in {"rows", "empty", "throws"} : SqQuerySettles(t, o)
  \/ SqPoolDrops
  \/ \E ok \in BOOLEAN : SqExecute(ok)
  \/ SqIsConnected

SpecSql == InitSql /\ [][NextSql]_vars

\* C20: after a successful testConnection(), isConnected() is true in every
\* state, whatever the driver reports about its pool, up to the next
\* configure() call or failed testConnection(); isConnected() always answers
\* (driver reports connected) or (last test succeeded); and the record of the
\* last test is withdrawn by configure() and by a failed test only.
C20_ConnectedAfterSuccessfulTest ==
  /\ [](testedOk => SqlIsConnected(sqlService))
  /\ [](lastOp.op = "isConnected" =>
          /\ lastOp.result
               = Some(DriverIsConnected(sqlService) \/ sqlService.lastTestSuccess)
          /\ testedOk => lastOp.result = Some(TRUE))
  /\ [][(sqlService.lastTestSuccess /\ ~sqlService'.lastTestSuccess) =>
          \/ lastOp'.op = "configure"
          \/ lastOp'.op = "testConnection" /\ lastOp'.outcome = "failed"]_vars

\* After a successful test the pool dropped, the driver reports not
\* connected, and isConnected() was read as true.
C20_Witness ==
  /\ testedOk
  /\ sqlService.pool = "down"
  /\ ~DriverIsConnected(sqlService)
  /\ lastOp.op = "isConnected"
  /\ lastOp.result = Some(TRUE)

\* The last step was a POST /sql/configure that reached configure() and whose
\* body named no port.
PostedWithoutPort ==
  /\ lastOp.op = "configure"
  /\ lastOp.req # Null
  /\ lastOp.req[1].port = Null

\* C21: a POST /sql/configure without a port configures port 5432 for dbType
\* postgres and 1433 for dbType mssql or none; switching from mssql to
\* postgres with the other fields alike, the driver being of the MSSQL
\* variant or none, is a changed connection, whose configure() replaces the
\* driver by one of the Postgres variant.
C21_SwitchToPostgres ==
  /\ [](PostedWithoutPort =>
          sqlService.config[1].port
            = IF lastOp.req[1].dbType = Some("postgres") THEN 5432 ELSE 1433)
  /\ [][(/\ PostedWithoutPort'
         /\ lastOp'.req[1].dbType = Some("postgres")
         /\ lastOp'.handed
              = Some([dbType |-> "mssql", server |-> lastOp'.req[1].server,
                      port |-> 1433])
         /\ sqlService.driver # 0 => sqlService.dbType = "mssql") =>
          /\ sqlService'.config
               = Some([dbType |-> "postgres", server |-> lastOp'.req[1].server,
                       port |-> 5432])
          /\ lastOp'.outcome = "changed"
          /\ sqlCalls'.configures = Append(sqlCalls.configures, "postgres")]_vars
  /\ [][(lastOp'.op = "configure" /\ lastOp'.outcome = "driver created") =>
          /\ sqlService'.driver # sqlService.driver
          /\ sqlService'.dbType = Head(sqlCalls.configures)
          /\ sqlService'.pool = "none"]_vars

\* A driver of the MSSQL variant was replaced by one of the Postgres variant
\* and the configured port is 5432.
C21_Witness ==
  /\ lastOp.op = "configure"
  /\ lastOp.outcome = "driver created"
  /\ lastOp.handed = Some("mssql")
  /\ sqlService.dbType = "postgres"
  /\ sqlService.config = Some([dbType |-> "postgres", server |-> "db1", port |-> 5432])
  /\ sqlCalls.configures = <<>>

\* The step is a call of configure() (not its resumption after the await).
ConfigureCalled == lastOp'.op = "configure" /\ lastOp'.outcome # "driver created"

\* C30: configure(newConfig) keeps the driver and does not disconnect it when
\* the connection fields equal the current configuration and a driver exists;
\* otherwise it disconnects the old driver, creates a new driver of the
\* variant dbType selects, and clears the last-successful-test flag.
C30_AsClaimed ==
  /\ [][ConfigureCalled =>
          IF sqlService'.config = sqlService.config /\ sqlService.driver # 0
          THEN /\ sqlService' = sqlService
               /\ sqlCalls'.configures = sqlCalls.configures
          ELSE /\ ~sqlService'.lastTestSuccess
               /\ (sqlService.driver # 0 /\ sqlService.pool # "none") =>
                    sqlService'.pool = "ending"
               /\ sqlCalls'.configures
                    = Append(sqlCalls.configures, sqlService'.config[1].dbType)]_vars
  /\ [][(lastOp'.op = "configure" /\ lastOp'.outcome = "driver created") =>
          /\ sqlService'.driver # sqlService.driver
          /\ sqlService'.dbType = Head(sqlCalls.configures)]_vars

-----------------------------------------------------------------------------
(* Claims about the timers of the client (Spec). *)

\* The step is a disconnect: a 'close' event or a call of disconnect().
Disconnected == lastOp'.op \in {"close", "disconnect"}

\* C22 as claimed: after every disconnect, a close event with any code or a
\* call of disconnect(), neither the heartbeat timer nor the catalog-refresh
\* timer is active; the heartbeat timer is started again by an open only
\* and the catalog-refresh timer by a successful catalog sync only.
C22_AsClaimed ==
  /\ [][Disconnected =>
          /\ ~heartbeatInterval' /\ hbTimers' = 0
          /\ ~catalogRefreshInterval' /\ refreshTimers' = 0]_vars
  /\ [][(~heartbeatInterval /\ heartbeatInterval') => lastOp'.op = "open"]_vars
  /\ [][(~catalogRefreshInterval /\ catalogRefreshInterval') =>
          lastOp'.op = "allowlist.sync" /\ lastOp'.outcome = ""]_vars

\* The step is a catalog sync (an allowlist.sync event or an
\* allowlist.refresh response carrying a catalog) that was accepted.
SyncAccepted == lastOp'.op = "allowlist.sync" /\ lastOp'.outcome = ""

\* The step is a catalog sync that failed verification.
SyncRejected == lastOp'.op = "allowlist.sync" /\ lastOp'.outcome # ""

\* C23 as claimed: whenever the client is Connected and a catalog has been
\* accepted exactly one catalog-refresh timer is active; while no catalog
\* has ever been accepted none is; a catalog sync that fails verification
\* neither starts nor restarts the timer; there is never more than one.
C23_AsClaimed ==
  /\ []((isConnectedFlag /\ everAccepted) => refreshTimers = 1)
  /\ [](~everAccepted => refreshTimers = 0)
  /\ [][SyncRejected =>
          /\ refreshTimers' = refreshTimers
          /\ catalogRefreshInterval' = catalogRefreshInterval]_vars
  /\ [](refreshTimers <= 1)

\* What holds of the catalog-refresh timer instead: exactly one is active from
\* every accepted catalog sync until the next call of disconnect(), whether
\* the client is Connected or not; disconnect() alone stops it, and only an
\* accepted sync starts it.
RefreshTimerLifecycle ==
  /\ [][SyncAccepted => refreshTimers' = 1]_vars
  /\ [][refreshTimers' # refreshTimers =>
          \/ SyncAccepted /\ refreshTimers = 0
          \/ lastOp'.op = "disconnect" /\ refreshTimers' = 0]_vars
  /\ [](catalogRefreshInterval <=> refreshTimers = 1)

\* The probe.heartbeat envelopes among those a step sent.
Heartbeats(sent) == {i \in DOMAIN sent : sent[i].action = "probe.heartbeat"}

\* C24: on every open exactly one heartbeat is sent at once and one heartbeat
\* timer is started; in every state the heartbeat timer is active exactly
\* when the connected flag is true, there is at most one heartbeat timer, and
\* no heartbeat, periodic or forced through notifyStatusChange, is sent while
\* the socket is not open.
C24_HeartbeatWhileConnected ==
  /\ [][lastOp'.op = "open" =>
          /\ Cardinality(Heartbeats(lastOp'.sent)) = 1
          /\ heartbeatInterval'
          /\ hbTimers' = 1]_vars
  /\ [](heartbeatInterval <=> isConnectedFlag)
  /\ [](hbTimers = IF heartbeatInterval THEN 1 ELSE 0)
  /\ [][Heartbeats(lastOp'.sent) # {} =>
          /\ lastOp'.op \in {"open", "heartbeat", "notifyStatusChange"}
          /\ SocketOpen(socks', socket')
          /\ lastOp'.op # "open" => SocketOpen(socks, socket)]_vars
  /\ [][(lastOp'.op \in {"heartbeat", "notifyStatusChange"}
         /\ ~SocketOpen(socks, socket)) => lastOp'.sent = <<>>]_vars

\* The client opened a connection again after a close: one heartbeat was sent
\* and one heartbeat timer is active.
C24_Witness ==
  /\ lastOp.op = "open"
  /\ lastCloseCode # 0
  /\ Cardinality(Heartbeats(lastOp.sent)) = 1
  /\ hbTimers = 1
  /\ isConnectedFlag

\* The actions of the envelopes a step sent, in the order of sending.
ActionsSent(sent) == [i \in DOMAIN sent |-> sent[i].action]

\* C25 as claimed: on every open the client becomes Connected, resets the
\* backoff counter, sends probe.register, then sends the first heartbeat and
\* starts the timers (the heartbeat timer, and the catalog-refresh timer of
\* the catalog it holds), then triggers the project sync; probe.register is
\* the first envelope sent on each new connection: whatever else is sent
\* goes out on a socket whose open handler has run.
C25_AsClaimed ==
  /\ [][lastOp'.op = "open" =>
          /\ isConnectedFlag'
          /\ reconnectAttempts' = 0
          /\ ActionsSent(lastOp'.sent) = <<"probe.register", "probe.heartbeat">>
          /\ heartbeatInterval'
          /\ catalog # Null => catalogRefreshInterval'
          /\ config.projectPath # "" =>
               syncs' = Append(syncs, "scanProjectStructure")]_vars
  /\ [][(lastOp'.sent # <<>> /\ lastOp'.op # "open") =>
          SocketOpen(socks, socket)]_vars
  /\ [][\A s \in Slots : (socks[s] # "OPEN" /\ socks'[s] = "OPEN") =>
          (lastOp'.op = "open" /\ socket' = s)]_vars

-----------------------------------------------------------------------------
(* WebSocketService: verifyAuth and the responses of the controller        *)
(* (SpecAuth).                                                             *)

MaxAuthCalls == 2

\* The value a verifyAuth promise resolves with.
AuthResult(success, error) == [success |-> success, error |-> error]

\* responseMsg.success ?? false.
SuccessOrFalse(success) == IF success = Null THEN FALSE ELSE success[1]

\* The promise of a verifyAuth call is resolved: only the first resolution
\* gives it its value.
ResolveAuth(call, result) ==
  [call EXCEPT !.timeout = FALSE,
               !.resolved = @ + 1,
               !.result = IF call.resolved = 0 THEN Some(result) ELSE @]

\* WebSocketService.verifyAuth: the id is the uuid of the request; timeout
\* tells whether the 10-second timer is armed, resolved counts the
\* resolutions of the promise, closeCodeAt keeps the close code last handled
\* when the call was made.
VerifyAuth ==
  /\ IF ~SocketOpen(socks, socket)
     THEN /\ lastOp' = [NoOp EXCEPT !.op = "verifyAuth",
                          !.outcome = "not connected",
                          !.result = Some(AuthResult(FALSE, Some("Not connected to server")))]
          /\ UNCHANGED authVars
     ELSE /\ Len(authCalls) < MaxAuthCalls
          /\ LET id == Len(authCalls) + 1
             IN  /\ authCalls' = Append(authCalls,
                                        [timeout |-> TRUE, resolved |-> 0,
                                         result |-> Null,
                                         closeCodeAt |-> lastCloseCode])
                 /\ pendingRequests' = pendingRequests \cup {id}
                 /\ lastOp' = [NoOp EXCEPT !.op = "verifyAuth",
                                 !.outcome = "pending", !.id = id,
                                 !.sent = SendMessage(socks, socket,
                                            Envelope("request", "auth.verify", id,
                                                     [password |-> "pw"]))]
  /\ UNCHANGED <<config, engineVars, now, connVars, timerVars, reqs, syncs, started,
                 everAccepted, lastCloseCode, input, sqlVars, pgVars>>

AuthTimeoutKeepsEntry(id) ==
  /\ id \in DOMAIN authCalls
  /\ authCalls[id].timeout
  /\ pendingRequests' = pendingRequests
  /\ authCalls' = [authCalls EXCEPT ![id] =
                     ResolveAuth(@, AuthResult(FALSE,
                                               Some("Authentication request timed out")))]
  /\ lastOp' = [NoOp EXCEPT !.op = "authTimeout", !.id = id]
  /\ UNCHANGED <<config, engineVars, now, connVars, timerVars, reqs, syncs, started,
                 everAccepted, lastCloseCode, input, sqlVars, pgVars>>

\* The callback of the setTimeout armed by verifyAuth runs.
AuthTimeoutFires(id) ==
  /\ id \in DOMAIN authCalls
  /\ authCalls[id].timeout
  /\ pendingRequests' = pendingRequests \ {id}
  /\ authCalls' = [authCalls EXCEPT ![id] =
                     ResolveAuth(@, AuthResult(FALSE,
                                               Some("Authentication request timed out")))]
  /\ lastOp' = [NoOp EXCEPT !.op = "authTimeout", !.id = id]
  /\ UNCHANGED <<config, engineVars, now, connVars, timerVars, reqs, syncs, started,
                 everAccepted, lastCloseCode, input, sqlVars, pgVars>>

\* The payload of a response envelope: nothing, success and error members as
\* an auth.verify reply might nest them, or a catalog.
ResponsePayload(success, error, c) == [success |-> success, error |-> error, catalog |-> c]

\* One catalog signed by the controller's CA key and one whose signature is
\* garbage.
AuthCatalogs ==
  {c \in WireCatalogs({Document(1, "1970-01-01T00:00:01Z", QueriesA)}) :
     c.signature # Sign("otherKey", c)}

\* An envelope of type response; id 0 is a missing or empty id, success and
\* error are its top-level members.
ResponseEnvelope(id, action, success, error, payload) ==
  [id |-> id, action |-> action, success |-> success, error |-> error,
   payload |-> payload]

\* The replies to auth.verify: accepted, refused with a reason, and two that
\* nest other values in the payload, one of them with no top-level members.
AuthResponses ==
  {ResponseEnvelope(id, "auth.verify.response", r[1], r[2], r[3]) :
     id \in 0..MaxAuthCalls,
     r \in {<<Some(TRUE), Null, ResponsePayload(Null, Null, Null)>>,
            <<Some(FALSE), Some("Invalid password"),
              ResponsePayload(Some(TRUE), Some("nested error"), Null)>>,
            <<Null, Null, ResponsePayload(Some(TRUE), Some("nested error"), Null)>>}}

RefreshResponses ==
  {ResponseEnvelope(id, "allowlist.refresh.response", Null, Null, payload) :
     id \in 0..MaxAuthCalls,
     payload \in {ResponsePayload(Null, Null, Null)}
                 \cup {ResponsePayload(Null, Null, Some(c)) : c \in AuthCatalogs}}

ReceiveResponseFromPayload(s, m) ==
  /\ socks[s] \in {"OPEN", "CLOSING"}
  /\ IF m.id = 0
     THEN /\ lastOp' = [NoOp EXCEPT !.op = "response", !.outcome = "handled as request",
                          !.req = Some(m),
                          !.sent = SendResponse(socks, socket, m.id, m.action,
                                     [error |-> Some("Unknown action: " \o m.action)])]
          /\ UNCHANGED <<engineVars, refreshTimers, catalogRefreshInterval,
                         everAccepted, authVars>>
     ELSE IF m.action = "allowlist.refresh.response"
     THEN IF m.payload.catalog # Null
          THEN /\ HandleAllowlistSync(s, m.payload.catalog[1],
                                      [NoOp EXCEPT !.req = Some(m)])
          ELSE /\ lastOp' = [NoOp EXCEPT !.op = "response", !.outcome = "ignored",
                               !.req = Some(m)]
               /\ UNCHANGED <<engineVars, refreshTimers, catalogRefreshInterval,
                              everAccepted, authVars>>
     ELSE IF m.id \in pendingRequests
     THEN /\ pendingRequests' = pendingRequests \ {m.id}
          /\ authCalls' = [authCalls EXCEPT ![m.id] =
                             ResolveAuth(@, AuthResult(SuccessOrFalse(m.payload.success),
                                                       m.payload.error))]
          /\ lastOp' = [NoOp EXCEPT !.op = "response", !.outcome = "resolved",
                          !.id = m.id, !.req = Some(m)]
          /\ UNCHANGED <<engineVars, refreshTimers, catalogRefreshInterval,
                         everAccepted>>
     ELSE /\ lastOp' = [NoOp EXCEPT !.op = "response", !.outcome = "no pending request",
                          !.req = Some(m)]
          /\ UNCHANGED <<engineVars, refreshTimers, catalogRefreshInterval,
                         everAccepted, authVars>>
  /\ UNCHANGED <<config, now, connVars, hbTimers, heartbeatInterval, reqs, syncs,
                 started, lastCloseCode, input, sqlVars, pgVars>>

\* handleMessage for an envelope of type response arriving on socket s. One
\* without an id is not taken for a response: it falls through to the
\* request switch, whose default case answers it.
ReceiveResponse(s, m) ==
  /\ socks[s] \in {"OPEN", "CLOSING"}
  /\ IF m.id = 0
     THEN /\ lastOp' = [NoOp EXCEPT !.op = "response", !.outcome = "handled as request",
                          !.req = Some(m),
                          !.sent = SendResponse(socks, socket, m.id, m.action,
                                     [error |-> Some("Unknown action: " \o m.action)])]
          /\ UNCHANGED <<engineVars, refreshTimers, catalogRefreshInterval,
                         everAccepted, authVars>>
     ELSE IF m.action = "allowlist.refresh.response"
     THEN IF m.payload.catalog # Null
          THEN /\ HandleAllowlistSync(s, m.payload.catalog[1],
                                      [NoOp EXCEPT !.req = Some(m)])
          ELSE /\ lastOp' = [NoOp EXCEPT !.op = "response", !.outcome = "ignored",
                               !.req = Some(m)]
               /\ UNCHANGED <<engineVars, refreshTimers, catalogRefreshInterval,
                              everAccepted, authVars>>
     ELSE IF m.id \in pendingRequests
     THEN /\ pendingRequests' = pendingRequests \ {m.id}
          /\ authCalls' = [authCalls EXCEPT ![m.id] =
                             ResolveAuth(@, AuthResult(SuccessOrFalse(m.success),
                                                       m.error))]
          /\ lastOp' = [NoOp EXCEPT !.op = "response", !.outcome = "resolved",
                          !.id = m.id, !.req = Some(m)]
          /\ UNCHANGED <<engineVars, refreshTimers, catalogRefreshInterval,
                         everAccepted>>
     ELSE /\ lastOp' = [NoOp EXCEPT !.op = "response", !.outcome = "no pending request",
                          !.req = Some(m)]
          /\ UNCHANGED <<engineVars, refreshTimers, catalogRefreshInterval,
                         everAccepted, authVars>>
  /\ UNCHANGED <<config, now, connVars, hbTimers, heartbeatInterval, reqs, syncs,
                 started, lastCloseCode, input, sqlVars, pgVars>>

AuthConfigs ==
  {AppConfig(InitJson(Url("https://", "h", <<>>), "s3cret", "", "CA_PEM", ""))}

InitAuth == InitClient(AuthConfigs)

NextAuth ==
  \/ Startup(MaxRetries)
  \/ \E i \in 1..MaxTimers : ReconnectTimerFires(i, MaxRetries)
  \/ \E s \in Slots : OpenEvent(s)
  \/ \E s \in Slots, code \in {1000, 1006, 4001} : CloseEvent(s, code, MaxRetries)
  \/ Disconnect
  \/ VerifyAuth
  \/ \E id \in 1..MaxAuthCalls : AuthTimeoutFires(id)
  \/ \E s \in Slots, m \in AuthResponses \cup RefreshResponses : ReceiveResponse(s, m)

SpecAuth == InitAuth /\ [][NextAuth]_vars

\* The timer of every pending verifyAuth call fires once ten seconds have
\* passed: the event loop runs every timer that is due.
SpecAuthLive ==
  SpecAuth /\ \A id \in 1..MaxAuthCalls : WF_vars(AuthTimeoutFires(id))

-----------------------------------------------------------------------------
(* Claims about verifyAuth and the pending requests (SpecAuth).            *)

TimedOut == AuthResult(FALSE, Some("Authentication request timed out"))

\* The step handled a response envelope that carries an id and is not an
\* allowlist.refresh.response, the special case of C28.
ResponseReceived ==
  /\ lastOp'.op = "response"
  /\ lastOp'.req[1].id # 0
  /\ lastOp'.req[1].action # "allowlist.refresh.response"

\* C26: every verifyAuth call made while the socket is open creates exactly
\* one pending entry under a fresh id and sends one auth.verify request with
\* that id; its promise is resolved exactly once, by the first response with
\* that id or by the 10-second timeout, and the entry is removed at that
\* moment; a late or second response has no effect; no two live entries
\* share an id; and every pending call is resolved in the end.
C26_ResolvedExactlyOnce ==
  /\ [][(lastOp'.op = "verifyAuth" /\ SocketOpen(socks, socket)) =>
          /\ lastOp'.id \notin DOMAIN authCalls
          /\ pendingRequests' = pendingRequests \cup {lastOp'.id}
          /\ DOMAIN authCalls' = DOMAIN authCalls \cup {lastOp'.id}
          /\ authCalls'[lastOp'.id].resolved = 0
          /\ ActionsSent(lastOp'.sent) = <<"auth.verify">>
          /\ lastOp'.sent[1].id = lastOp'.id]_vars
  /\ [](/\ pendingRequests \subseteq DOMAIN authCalls
        /\ \A id \in DOMAIN authCalls :
             /\ authCalls[id].resolved <= 1
             /\ id \in pendingRequests <=> authCalls[id].resolved = 0
             /\ id \in pendingRequests <=> authCalls[id].timeout)
  /\ [][\A id \in DOMAIN authCalls :
          authCalls'[id] # authCalls[id] =>
            /\ id \in pendingRequests
            /\ id \notin pendingRequests'
            /\ \/ /\ lastOp'.op = "authTimeout" /\ lastOp'.id = id
                  /\ authCalls'[id].result = Some(TimedOut)
               \/ ResponseReceived /\ lastOp'.req[1].id = id]_vars
  /\ [][(ResponseReceived /\ lastOp'.req[1].id \in pendingRequests) =>
          /\ lastOp'.req[1].id \notin pendingRequests'
          /\ authCalls'[lastOp'.req[1].id].resolved = 1]_vars
  /\ [][(ResponseReceived /\ lastOp'.req[1].id \notin pendingRequests) =>
          /\ UNCHANGED authVars
          /\ lastOp'.sent = <<>>]_vars
  /\ \A id \in 1..MaxAuthCalls :
       (id \in pendingRequests) ~>
         (/\ id \in DOMAIN authCalls
          /\ id \notin pendingRequests
          /\ authCalls[id].resolved = 1)

\* A response arrived for a call its timeout had already resolved, and had no
\* effect.
C26_Witness ==
  /\ lastOp.op = "response"
  /\ lastOp.outcome = "no pending request"
  /\ lastOp.req[1].id \in DOMAIN authCalls
  /\ lastOp.req[1].success = Some(TRUE)
  /\ authCalls[lastOp.req[1].id].resolved = 1
  /\ authCalls[lastOp.req[1].id].result = Some(TimedOut)

\* C27: a pending auth.verify request is resolved only by a response with
\* its id or by its own timeout: a close event and disconnect() leave the
\* pending map as it is, so that an entry can outlive its connection, and a
\* response arriving on a later connection before the timeout resolves it.
C27_PendingOutlivesConnection ==
  /\ [][Disconnected => UNCHANGED authVars]_vars
  /\ [][\A id \in pendingRequests :
          id \notin pendingRequests' =>
            \/ lastOp'.op = "authTimeout" /\ lastOp'.id = id
            \/ lastOp'.op = "response" /\ lastOp'.req[1].id = id]_vars
  /\ [][(ResponseReceived /\ lastOp'.req[1].id \in pendingRequests) =>
          /\ lastOp'.outcome = "resolved"
          /\ authCalls'[lastOp'.req[1].id].result # Null
          /\ authCalls'[lastOp'.req[1].id].result # Some(TimedOut)]_vars

\* A call made on the first connection, before any close, was resolved by a
\* response that arrived after a close had been handled, on a later
\* connection.
C27_Witness ==
  /\ lastOp.op = "response"
  /\ lastOp.outcome = "resolved"
  /\ authCalls[lastOp.id].closeCodeAt = 0
  /\ lastCloseCode # 0
  /\ authCalls[lastOp.id].result = Some(AuthResult(TRUE, Null))

\* The step handled a response envelope whose action is
\* allowlist.refresh.response.
RefreshResponseReceived ==
  /\ lastOp'.op \in {"response", "allowlist.sync"}
  /\ lastOp'.req # Null
  /\ lastOp'.req[1].action = "allowlist.refresh.response"

\* What handleAllowlistSync does with catalog c: the engine after
\* updateCatalog, and the refresh timer started when it was accepted.
SameAsAllowlistSync(c) ==
  LET r == UpdateCatalog(config.caCertificate, Engine, c)
  IN  /\ <<catalog', templateHashMap', expiresAt'>> = r.engine
      /\ lastOp'.outcome = r.threw
      /\ IF r.threw = ""
         THEN catalogRefreshInterval' /\ refreshTimers' = 1
         ELSE UNCHANGED <<refreshTimers, catalogRefreshInterval>>

\* C28 as claimed: an inbound response whose action is
\* allowlist.refresh.response is never looked up in the pending map: with a
\* catalog in its payload it goes through the verification and swap of
\* allowlist.sync, otherwise it is ignored; no pending entry is resolved or
\* removed and no envelope is sent in reply.
C28_AsClaimed ==
  [][RefreshResponseReceived =>
       /\ UNCHANGED authVars
       /\ lastOp'.sent = <<>>
       /\ IF lastOp'.req[1].payload.catalog # Null
          THEN SameAsAllowlistSync(lastOp'.req[1].payload.catalog[1])
          ELSE UNCHANGED <<engineVars, timerVars>>]_vars

\* What holds instead: a response whose action is allowlist.refresh.response
\* and which carries a non-empty id is handled as claimed; one whose id is
\* missing or empty is handled as a request: its catalog is not looked at,
\* nothing pending is touched, and while the socket is open it is answered
\* with the error "Unknown action".
RefreshResponseRouting ==
  [][RefreshResponseReceived =>
       /\ UNCHANGED authVars
       /\ IF lastOp'.req[1].id = 0
          THEN /\ UNCHANGED <<engineVars, timerVars>>
               /\ lastOp'.sent
                    = SendResponse(socks, socket, 0, "allowlist.refresh.response",
                        [error |-> Some("Unknown action: allowlist.refresh.response")])
          ELSE /\ lastOp'.sent = <<>>
               /\ IF lastOp'.req[1].payload.catalog # Null
                  THEN SameAsAllowlistSync(lastOp'.req[1].payload.catalog[1])
                  ELSE UNCHANGED <<engineVars, timerVars>>]_vars

\* C29: when a response matches a pending id the request resolves with
\* success taken from the top-level success member of the envelope, false
\* when it is absent, and error taken from the top-level error member;
\* what the payload nests is ignored.
C29_ResolvesFromTopLevel ==
  /\ [][(lastOp'.op = "response" /\ lastOp'.outcome = "resolved") =>
          authCalls'[lastOp'.id].result
            = Some(AuthResult(IF lastOp'.req[1].success = Null THEN FALSE
                              ELSE lastOp'.req[1].success[1],
                              lastOp'.req[1].error))]_vars
  /\ [][(ResponseReceived /\ lastOp'.req[1].id \in pendingRequests) =>
          /\ lastOp'.outcome = "resolved"
          /\ lastOp'.id = lastOp'.req[1].id]_vars

\* A request was resolved as refused, with the top-level reason, by an
\* envelope whose payload nests success and another error.
C29_Witness ==
  /\ lastOp.op = "response"
  /\ lastOp.outcome = "resolved"
  /\ lastOp.req[1].payload.success = Some(TRUE)
  /\ lastOp.req[1].payload.error = Some("nested error")
  /\ authCalls[lastOp.id].result = Some(AuthResult(FALSE, Some("Invalid password")))

-----------------------------------------------------------------------------
(* The client while queries are in flight (SpecBusy): timers, events,      *)
(* responses and requests around a handler that waits for the executor.    *)

BusyConfigs ==
  {AppConfig(InitJson(Url("https://", "h", <<>>), "s3cret", "", "CA_PEM", ""))}

BusyPayloads ==
  {Payload(TemplateA, <<>>, <<>>), Payload(<<>>, <<>>, <<"q">>)}

BusyResponses ==
  {ResponseEnvelope(1, "auth.verify.response", Some(TRUE), Null,
                    ResponsePayload(Null, Null, Null))}
  \cup {ResponseEnvelope(1, "allowlist.refresh.response", Null, Null,
                         ResponsePayload(Null, Null, Some(c))) : c \in AuthCatalogs}

InitBusy == InitClient(BusyConfigs)

NextBusy ==
  \/ Startup(MaxRetries)
  \/ \E i \in 1..MaxTimers : ReconnectTimerFires(i, MaxRetries)
  \/ \E s \in Slots : OpenEvent(s)
  \/ \E s \in Slots, code \in {1000, 1006, 4001} : CloseEvent(s, code, MaxRetries)
  \/ HeartbeatTick
  \/ RefreshTick
  \/ \E s \in Slots, c \in AuthCatalogs : HandleAllowlistSync(s, c, NoOp)
  \/ \E s \in Slots, m \in BusyResponses : ReceiveResponse(s, m)
  \/ \E s \in Slots, p \in BusyPayloads : ReceiveRequest(s, "sql.execute", p, TRUE)
  \/ \E s \in Slots : ReceiveRequest(s, "sql.testConnection", NoPayload, TRUE)
  \/ \E id \in 1..MaxRequests, o \in SqlOutcomes : Complete(id, o)

SpecBusy == InitBusy /\ [][NextBusy]_vars

\* Some sql.execute handler is waiting for sqlService.execute to settle.
SqlWaiting ==
  \E id \in DOMAIN reqs :
    reqs[id].status = "running" /\ reqs[id].action = "sql.execute"

\* C31: while a sql.execute handler is waiting for the executor, a heartbeat
\* timer that is armed can fire and sends its heartbeat on the open socket,
\* a catalog-refresh timer that is armed can fire and sends its
\* allowlist.refresh request, and events, responses and further requests
\* arriving on a socket are handled; none of these steps touches the waiting
\* handler.
C31_NothingWaitsForAQuery ==
  /\ [](SqlWaiting =>
          /\ hbTimers > 0 => ENABLED HeartbeatTick
          /\ refreshTimers > 0 => ENABLED RefreshTick
          /\ \A s \in Slots :
               socks[s] \in {"OPEN", "CLOSING"} =>
                 /\ \A c \in AuthCatalogs : ENABLED HandleAllowlistSync(s, c, NoOp)
                 /\ \A m \in BusyResponses : ENABLED ReceiveResponse(s, m)
                 /\ Len(reqs) < MaxRequests =>
                      \A p \in BusyPayloads :
                        ENABLED ReceiveRequest(s, "sql.execute", p, TRUE))
  /\ [][(SqlWaiting /\ lastOp'.op = "heartbeat" /\ SocketOpen(socks, socket)) =>
          ActionsSent(lastOp'.sent) = <<"probe.heartbeat">>]_vars
  /\ [][(SqlWaiting /\ lastOp'.op = "refresh" /\ SocketOpen(socks, socket)) =>
          ActionsSent(lastOp'.sent) = <<"allowlist.refresh">>]_vars
  /\ [][(SqlWaiting /\ lastOp'.op \in {"heartbeat", "refresh", "allowlist.sync",
                                        "response"}) =>
          reqs' = reqs]_vars
  /\ [][(SqlWaiting /\ lastOp'.op = "request") =>
          /\ Len(reqs') = Len(reqs) + 1
          /\ \A id \in DOMAIN reqs : reqs'[id] = reqs[id]]_vars

\* While one sql.execute waited for the executor, the heartbeat timer fired
\* and its heartbeat went out.
C31_Witness ==
  /\ SqlWaiting
  /\ lastOp.op = "heartbeat"
  /\ ActionsSent(lastOp.sent) = <<"probe.heartbeat">>

-----------------------------------------------------------------------------
(* Claims about file requests and the project sync (Spec). *)

\* The step received a request for one of the four file actions.
FileRequested ==
  /\ lastOp'.op = "request"
  /\ lastOp'.req[1].action \in FileActions \cup {"file.getStructure"}

NotConfigured == [error |-> Some("Project path not configured on agent")]

SyncActions == {"sync.structure", "sync.mdFiles"}

\* C32 as claimed: when no project path is configured, file.read, file.list,
\* file.search and file.getStructure each answer with the 'not configured'
\* error and call no operation of the file service, and the project sync
\* started on open calls no operation of the file service and sends neither
\* sync.structure nor sync.mdFiles.
C32_AsClaimed ==
  /\ [][(FileRequested /\ config.projectPath = "") =>
          /\ lastOp'.outcome = "settled"
          /\ reqs'[lastOp'.id].status = "done"
          /\ lastOp'.result = Some(NotConfigured)]_vars
  /\ [](config.projectPath = "" => syncs = <<>>)
  /\ [][config.projectPath = "" =>
          \A i \in DOMAIN lastOp'.sent : lastOp'.sent[i].action \notin SyncActions]_vars

\* What holds instead: without a project path no file request and no sync
\* reaches the file service, and every file request is answered with an
\* error at once; the error is 'not configured' unless the request is a
\* file.read or file.list without a payload, which is answered with the
\* TypeError of reading payload.path.
NoProjectNoFileAccess ==
  /\ [][(FileRequested /\ config.projectPath = "") =>
          /\ lastOp'.outcome = "settled"
          /\ reqs'[lastOp'.id].status = "done"
          /\ lastOp'.result
               = IF /\ lastOp'.req[1].action \in {"file.read", "file.list"}
                    /\ ~lastOp'.req[1].payload.present
                 THEN Some([error |-> Some("Cannot read properties of undefined")])
                 ELSE Some(NotConfigured)]_vars
  /\ [](config.projectPath = "" => syncs = <<>>)
  /\ [][config.projectPath = "" =>
          \A i \in DOMAIN lastOp'.sent : lastOp'.sent[i].action \notin SyncActions]_vars

-----------------------------------------------------------------------------
(* Claims about the catalog across connections (Spec). *)

\* C33: a close event, a reconnect (connect() and the open that follows) and
\* disconnect() leave the stored catalog, its expiry and the reverse map as
\* they are; the client changes them only by an accepted catalog sync, so a
\* catalog accepted on one connection is the one requests are validated
\* against on every later connection until an accepted sync replaces it.
C33_CatalogOutlivesConnection ==
  /\ [][lastOp'.op \in {"close", "disconnect", "connect", "open", "startup"} =>
          UNCHANGED engineVars]_vars
  /\ [][engineVars' # engineVars =>
          /\ lastOp'.op = "allowlist.sync"
          /\ lastOp'.outcome = ""
          /\ catalog' # Null]_vars
  /\ [](catalog # Null <=> everAccepted)

\* The second connection has just opened and the catalog accepted on the
\* first is still stored, with its reverse map.
C33_Witness ==
  /\ lastOp.op = "open"
  /\ lastCloseCode # 0
  /\ catalog # Null
  /\ templateHashMap # EmptyMap
  /\ expiresAt # Null

\* ---------------------------------------------------------------------------
\* Claims about an expired catalog (Spec)
\* ---------------------------------------------------------------------------

\* A catalog is stored and isCatalogExpired() answers true at this moment.
StoredCatalogExpired == HasCatalog(Engine) /\ IsCatalogExpired(Engine, now)

\* C34: while the stored catalog is expired (no newer one has replaced it),
\* every sql.execute request is answered with an error result and nothing is
\* passed to the executor: a template request gets the "catalog has expired"
\* error and a raw query gets the "direct queries not allowed" error, so
\* expiry never re-opens the raw-query path.
C34_ExpiredCatalogBlocksEverything ==
  (LastSqlRequest /\ StoredCatalogExpired) =>
    /\ lastOp.handed = Null
    /\ lastOp.result # Null
    /\ lastOp.result[1].error # Null
    /\ lastOp.result[1].rows = <<>>
    /\ (lastOp.req[1].payload.present /\ lastOp.req[1].payload.template # <<>>) =>
         lastOp.result[1].error =
           Some("Security: Query catalog has expired - waiting for refresh")
    /\ LastRawRequest =>
         lastOp.result[1].error =
           Some("Security: Direct queries not allowed - template required")
    /\ reqs[lastOp.id].status = "done"

\* A raw query arrived while the stored catalog was expired and was refused.
C34_Witness ==
  /\ LastRawRequest
  /\ StoredCatalogExpired
  /\ lastOp.handed = Null
  /\ lastOp.result # Null
  /\ lastOp.result[1].error =
       Some("Security: Direct queries not allowed - template required")

\* ---------------------------------------------------------------------------
\* Claims about a client without a CA certificate (Spec)
\* ---------------------------------------------------------------------------

\* The AllowlistService was constructed with config.caCertificate || ''.
NoCaCertificate == config.caCertificate = ""

\* C35: a client provisioned without a CA certificate never accepts a catalog:
\* every allowlist.sync ends with SIGNATURE_INVALID and stores nothing, so for
\* the whole run every template request is refused with "catalog not yet
\* received" and every raw-query request is passed to sqlService.execute
\* unchanged, with no allowlist check in between (the executor itself may
\* still answer "SQL not configured").
C35_NoCertificateNoAllowlist ==
  NoCaCertificate =>
    /\ ~everAccepted
    /\ catalog = Null /\ templateHashMap = EmptyMap /\ expiresAt = Null
    /\ refreshTimers = 0 /\ ~catalogRefreshInterval
    /\ lastOp.op = "allowlist.sync" => lastOp.outcome = "SIGNATURE_INVALID"
    /\ (LastSqlRequest /\ lastOp.req[1].payload.present
          /\ lastOp.req[1].payload.template # <<>>) =>
         /\ lastOp.handed = Null
         /\ lastOp.result # Null
         /\ lastOp.result[1].error =
              Some("Security: Query catalog not yet received from server")
    /\ LastRawRequest =>
         /\ lastOp.handed = Some(lastOp.req[1].payload.query)
         /\ lastOp.outcome = "waiting" => reqs[lastOp.id].status = "running"
         /\ lastOp.outcome # "waiting" =>
              lastOp.result = Some(SqlResult(Thrown(TRUE, "SQL not configured")))

\* Without a CA certificate a validly signed catalog has just been refused.
C35_Witness ==
  /\ NoCaCertificate
  /\ lastOp.op = "allowlist.sync"
  /\ lastOp.outcome = "SIGNATURE_INVALID"
  /\ \E id \in DOMAIN reqs : reqs[id].action = "sql.execute" /\ reqs[id].status = "running"

-----------------------------------------------------------------------------
(* handleSqlExecute on templates that differ in comments and whitespace
   (SpecExecute): a catalog approving TemplateA and TemplateK arrives, and
   template requests arrive one after the other; input keeps, for each, its
   payload and the text passed to the executor. *)

MaxExecutions == 2

ExecutePayloads ==
  {Payload(NormVariant(t, v), p, <<>>) :
     t \in {TemplateA, TemplateK, <<"b">>},
     v \in NormVariants,
     p \in {<<>>, << <<"k", <<"7">>>> >>}}

ExecuteCatalog ==
  LET d == Document(1, "1970-01-01T00:00:03Z", QueriesAB)
  IN  [d EXCEPT !.signature = Sign("caKey", d)]

InitExecute ==
  /\ config = [caCertificate |-> "CA_PEM"]
  /\ catalog = Null
  /\ templateHashMap = EmptyMap
  /\ expiresAt = Null
  /\ now = 0
  /\ lastOp = NoOp
  /\ input = <<>>
  /\ ClientIdle

\* A sql.execute request with payload p is handled up to the call of the
\* executor.
ExeHandleSqlExecute(p) ==
  /\ Len(input) < MaxExecutions
  /\ LET d == HandleSqlExecute(Engine, now, p)
     IN  /\ input' = Append(input, [payload |-> p, handed |-> d.handed])
         /\ lastOp' = [NoOp EXCEPT !.op = "request",
                                   !.req = Some([action |-> "sql.execute", payload |-> p]),
                                   !.outcome = d.error,
                                   !.template = Some(p.template),
                                   !.handed = d.handed]
  /\ UNCHANGED <<config, engineVars, now, connVars, timerVars, reqs, syncs, started,
                 everAccepted, lastCloseCode, sqlVars, pgVars, authVars>>

NextExecute ==
  \/ Tick
  \/ EngUpdateCatalog(ExecuteCatalog)
  \/ \E p \in ExecutePayloads : ExeHandleSqlExecute(p)

SpecExecute == InitExecute /\ [][NextExecute]_vars

\* The requests handled so far that were accepted.
Accepted == {i \in 1..Len(input) : input[i].handed # Null}

\* C36: the text passed to the executor for an accepted template request is
\* substituteParams applied to the template exactly as it was received: with
\* no parameters it is the received template character for character, so the
\* comments and whitespace that normalization removed before hashing are still
\* in it; the template's hash is a key of the stored catalog's map.
C36_ExecutesTemplateAsReceived ==
  \A i \in Accepted :
    /\ input[i].payload.template # <<>>
    /\ HashTemplate(input[i].payload.template) \in DOMAIN templateHashMap
    /\ input[i].handed =
         Some(SubstituteParams(input[i].payload.template, input[i].payload.params))
    /\ input[i].payload.params = <<>> =>
         input[i].handed = Some(input[i].payload.template)

\* Two accepted requests whose templates have the same hash passed different
\* text to the executor, one of them text with a comment that the normalized
\* form does not have.
C36_Witness ==
  \E i, j \in Accepted :
    /\ HashTemplate(input[i].payload.template) = HashTemplate(input[j].payload.template)
    /\ input[i].payload.params = input[j].payload.params
    /\ input[i].handed # input[j].handed
    /\ input[i].handed # Some(SubstituteParams(NormalizeTemplate(input[i].payload.template),
                                               input[i].payload.params))
    /\ \E k \in 1..Len(input[i].handed[1]) : input[i].handed[1][k] = "*"

-----------------------------------------------------------------------------
(* updateCatalog over a run of catalogs of different versions and expiry times
   (SpecVersions); input keeps, for each call, the catalog, the time of the
   call and whether the call returned. *)

MaxUpdates == 2

VersionDocuments ==
  {Document(v, e, QueriesA) : v \in {1, 2}, e \in ExpiryTexts}

\* Each document signed by the controller, and one signed with a foreign key.
VersionCatalogs ==
  {[d EXCEPT !.signature = Sign("caKey", d)] : d \in VersionDocuments}
  \cup {[d EXCEPT !.signature = Sign("otherKey", d)] :
          d \in {Document(2, "1970-01-01T00:00:03Z", QueriesA)}}

VerUpdateCatalog(c) ==
  /\ Len(input) < MaxUpdates
  /\ LET r == UpdateCatalog(config.caCertificate, Engine, c)
     IN  /\ catalog' = r.engine[1]
         /\ templateHashMap' = r.engine[2]
         /\ expiresAt' = r.engine[3]
         /\ input' = Append(input, [catalog |-> c, at |-> now, returned |-> r.threw = ""])
         /\ lastOp' = [NoOp EXCEPT !.op = "updateCatalog", !.outcome = r.threw]
  /\ UNCHANGED <<config, now, connVars, timerVars, reqs, syncs, started,
                 everAccepted, lastCloseCode, sqlVars, pgVars, authVars>>

NextVersions ==
  \/ Tick
  \/ \E c \in VersionCatalogs : VerUpdateCatalog(c)

SpecVersions == InitEngine /\ [][NextVersions]_vars

\* The calls of updateCatalog so far that returned: the successful updates.
Updated == {i \in 1..Len(input) : input[i].returned}

\* C37: updateCatalog returns for exactly the catalogs whose signature
\* verifies, whatever their version and expires_at, and each one it returns
\* for replaces the stored catalog, the expiry and the hash map: the stored
\* catalog is always the one of the latest successful update, also when its
\* version is lower than the one stored before or its expires_at had passed
\* when it arrived.
C37_AcceptsAnyValidlySignedCatalog ==
  /\ \A i \in 1..Len(input) :
       input[i].returned <=> VerifySignature(config.caCertificate, input[i].catalog)
  /\ Updated = {} => catalog = Null
  /\ Updated # {} =>
       LET last == CHOOSE i \in Updated : \A j \in Updated : j <= i
       IN  /\ catalog = Some(input[last].catalog)
           /\ expiresAt = Some(DateParse(input[last].catalog.expires_at))
           /\ templateHashMap = BuildHashMap(input[last].catalog.queries, EmptyMap)

\* Version 2 was stored, then a catalog of version 1 that had expired before
\* it arrived replaced it.
C37_Witness ==
  /\ Len(input) = 2
  /\ Updated = {1, 2}
  /\ input[1].catalog.version = 2
  /\ input[2].catalog.version = 1
  /\ DateAfter(input[2].at, DateParse(input[2].catalog.expires_at))
  /\ catalog = Some(input[2].catalog)
  /\ catalog[1].version = 1

-----------------------------------------------------------------------------
(* Claims about disconnect() (SpecLive). *)

\* C38: disconnect() stops the heartbeat and the catalog-refresh timer, closes
\* the socket and drops the reference to it, and leaves the pending reconnect
\* timers and the attempt counter alone; it is not terminal: a reconnect timer
\* pending when it returns still fires and calls connect, and the close event
\* of the socket it closed (code other than 4001) schedules a reconnect that
\* calls connect as well. (The reconnect counter is followed up to
\* MaxAttempts.)
C38_DisconnectIsNotTerminal ==
  /\ [][lastOp'.op = "disconnect" =>
          /\ ~heartbeatInterval' /\ ~catalogRefreshInterval'
          /\ hbTimers' = hbTimers - (IF heartbeatInterval THEN 1 ELSE 0)
          /\ refreshTimers' = refreshTimers - (IF catalogRefreshInterval THEN 1 ELSE 0)
          /\ ~isConnectedFlag'
          /\ socket' = 0
          /\ socket # 0 => socks'[socket] \notin {"CONNECTING", "OPEN"}
          /\ UNCHANGED <<reconnectTimers, reconnectAttempts>>]_vars
  /\ (lastOp.op = "disconnect" /\ reconnectTimers # <<>>
        /\ reconnectAttempts < MaxAttempts) ~> (lastOp.op = "connect")
  /\ [][(lastOp'.op = "close" /\ socket = 0 /\ lastOp'.code # 4001) =>
          /\ reconnectTimers' = Append(reconnectTimers, lastOp'.delay)
          /\ lastOp'.delay > 0]_vars
  /\ (lastOp.op = "close" /\ socket = 0 /\ lastOp.code # 4001) ~> (lastOp.op = "connect")

\* A connection was lost, and disconnect() has returned with the reconnect
\* timer of that close still pending; the timer can fire.
C38_Witness ==
  /\ lastOp.op = "disconnect"
  /\ lastCloseCode \in {1000, 1006}
  /\ Len(reconnectTimers) = 1
  /\ socket = 0
  /\ ~heartbeatInterval
  /\ ENABLED TimerFires

-----------------------------------------------------------------------------
(* Responses across connections (SpecReply): requests whose handlers wait for
   the executor while the connection is lost, re-established or shut down.
   input keeps, for each request in the order of reqs, whether a close event
   had been seen when the request arrived. *)

\* handleMessage for a request envelope arriving on socket s, as
\* ReceiveRequest with a configured database; the arrival is noted in input.
RpReceiveRequest(s, action, payload) ==
  /\ socks[s] \in {"OPEN", "CLOSING"}
  /\ Len(reqs) < MaxRequests
  /\ LET id == Len(reqs) + 1
         d == Dispatch(action, payload, TRUE)
         sent == IF d.settled
                 THEN SendResponse(socks, socket, id, action, d.payload)
                 ELSE <<>>
     IN  /\ reqs' = Append(reqs, [action |-> IF d.settled THEN "" ELSE action,
                                  status |-> IF d.settled THEN "done" ELSE "running",
                                  responses |-> Len(sent)])
         /\ input' = Append(input, [closedBefore |-> lastCloseCode # 0])
         /\ lastOp' = [NoOp EXCEPT !.op = "request", !.id = id,
                                   !.req = Some([action |-> action, payload |-> payload]),
                                   !.outcome = IF d.settled THEN "settled" ELSE "waiting",
                                   !.handed = d.handed,
                                   !.result = IF d.settled THEN Some(d.payload) ELSE Null,
                                   !.sent = sent]
  /\ UNCHANGED <<config, engineVars, now, connVars, timerVars, syncs, started,
                 everAccepted, lastCloseCode, sqlVars, pgVars, authVars>>

InitReply == InitClient(BusyConfigs)

NextReply ==
  \/ Startup(MaxRetries)
  \/ \E i \in 1..MaxTimers : ReconnectTimerFires(i, MaxRetries)
  \/ \E s \in Slots : OpenEvent(s)
  \/ \E s \in Slots, code \in {1000, 1006, 4001} : CloseEvent(s, code, MaxRetries)
  \/ Disconnect
  \/ \E s \in Slots, p \in BusyPayloads : RpReceiveRequest(s, "sql.execute", p)
  \/ \E s \in Slots : RpReceiveRequest(s, "sql.testConnection", NoPayload)
  \/ \E id \in 1..MaxRequests, o \in SqlOutcomes : Complete(id, o)

SpecReply == InitReply /\ [][NextReply]_vars

\* The responses among the messages a step put on the wire.
ResponsesSent(sent) == SelectSeq(sent, LAMBDA m : m.type = "response")

\* C39: when a waiting handler finishes, its response goes to the socket that
\* is current and open at that moment, whichever connection the request came
\* in on, and to no socket when none is open: the request is then done with no
\* response sent, no later step changes that, and no step sends a response
\* for a request other than the one it has just handled.
C39_ResponseFollowsCurrentSocket ==
  /\ [][\A id \in 1..MaxRequests, o \in SqlOutcomes :
          Complete(id, o) =>
            /\ lastOp'.sent =
                 IF SocketOpen(socks, socket)
                 THEN <<Envelope("response", reqs[id].action \o ".response", id,
                                 Settle(reqs[id].action, o))>>
                 ELSE <<>>
            /\ reqs'[id].status = "done"
            /\ reqs'[id].responses = Len(lastOp'.sent)]_vars
  /\ [][\A id \in DOMAIN reqs :
          reqs[id].status = "done" => (id \in DOMAIN reqs' /\ reqs'[id] = reqs[id])]_vars
  /\ [][ResponsesSent(lastOp'.sent) # <<>> =>
          /\ lastOp'.op \in {"request", "complete"}
          /\ Len(lastOp'.sent) = 1
          /\ lastOp'.sent[1].id = lastOp'.id
          /\ (lastOp'.id \in DOMAIN reqs => reqs[lastOp'.id].status = "running")]_vars

\* A request arrived before any connection had been lost; the connection
\* closed, a new one opened, and the handler's response went out on it.
C39_Witness ==
  /\ lastOp.op = "complete"
  /\ Len(lastOp.sent) = 1
  /\ lastOp.id \in DOMAIN input
  /\ ~input[lastOp.id].closedBefore
  /\ lastCloseCode \in {1000, 1006}
  /\ SocketOpen(socks, socket)
  /\ isConnectedFlag

-----------------------------------------------------------------------------
(* SqlService on a PostgresDriver, pool by pool (SpecPools): configure() has
   stored a PostgreSQL configuration and created the driver; testConnection(),
   execute() and disconnect() calls run interleaved at their awaits. pgPools
   keeps every pg.Pool the driver constructed: "open", "ending" once end()
   was called on it, "ended" once that end() settled. *)

MaxPools == 3

MaxPgCalls == 3

\* PostgresDriver.isConnected: this.pool !== null && this.pool.ending !== true;
\* a pool's ending flag is set by end() and never cleared.
PgIsConnected(pools, pool) == pool # 0 /\ pools[pool] = "open"

PgDriverConnectEndsHeld(pools, pool) ==
  <<Append(IF pool # 0 THEN [pools EXCEPT ![pool] = "ended"] ELSE pools, "open"),
    Len(pools) + 1>>

\* PostgresDriver.connect up to "await this.pool.connect()": a new pg.Pool is
\* constructed and assigned to this.pool. The result is <<pools, pool>>.
PgDriverConnect(pools, pool) == <<Append(pools, "open"), Len(pools) + 1>>

\* The execute() calls that have not returned.
ExecutesRunning ==
  {i \in DOMAIN pgCalls : pgCalls[i].kind = "execute" /\ pgCalls[i].pc # "done"}

\* A call as it starts: pool is the pool it waits on, opened whether it called
\* driver.connect at once, made the pool that connect constructed (0: none),
\* found the pool the driver held when the call started, overlaps the
\* execute() calls running at that moment.
PgCall(kind, pc, pool, opened) ==
  [kind |-> kind, pc |-> pc, pool |-> pool, opened |-> opened,
   made |-> IF opened THEN pool ELSE 0, found |-> pgPool,
   overlaps |-> ExecutesRunning]

pgFrame ==
  <<config, engineVars, now, connVars, timerVars, reqs, syncs, started,
    everAccepted, lastCloseCode, input, sqlVars, authVars>>

InitPools ==
  /\ config = [caCertificate |-> "CA_PEM"]
  /\ catalog = Null
  /\ templateHashMap = EmptyMap
  /\ expiresAt = Null
  /\ now = 0
  /\ lastOp = NoOp
  /\ input = <<>>
  /\ ClientIdle

\* SqlService.testConnection is called: connect() calls driver.connect, whatever
\* the driver holds, and waits.
PgTestConnection ==
  /\ Len(pgCalls) < MaxPgCalls
  /\ Len(pgPools) < MaxPools
  /\ pgPools' = PgDriverConnect(pgPools, pgPool)[1]
  /\ pgPool' = PgDriverConnect(pgPools, pgPool)[2]
  /\ pgCalls' = Append(pgCalls, PgCall("testConnection", "connect",
                                       PgDriverConnect(pgPools, pgPool)[2], TRUE))
  /\ lastOp' = [NoOp EXCEPT !.op = "testConnection", !.id = Len(pgCalls) + 1,
                            !.outcome = "connecting"]
  /\ UNCHANGED pgFrame

\* SqlService.execute is called: it connects when the driver does not report
\* connected, else it hands the query to the driver.
PgExecute ==
  /\ Len(pgCalls) < MaxPgCalls
  /\ IF PgIsConnected(pgPools, pgPool)
     THEN /\ pgCalls' = Append(pgCalls, PgCall("execute", "query", pgPool, FALSE))
          /\ lastOp' = [NoOp EXCEPT !.op = "execute", !.id = Len(pgCalls) + 1,
                                    !.outcome = "querying"]
          /\ UNCHANGED <<pgPools, pgPool>>
     ELSE /\ Len(pgPools) < MaxPools
          /\ pgPools' = PgDriverConnect(pgPools, pgPool)[1]
          /\ pgPool' = PgDriverConnect(pgPools, pgPool)[2]
          /\ pgCalls' = Append(pgCalls, PgCall("execute", "connect",
                                               PgDriverConnect(pgPools, pgPool)[2], TRUE))
          /\ lastOp' = [NoOp EXCEPT !.op = "execute", !.id = Len(pgCalls) + 1,
                                    !.outcome = "connecting"]
  /\ UNCHANGED pgFrame

\* pool.connect() settles for call i. Rejected, the call throws. Resolved,
\* testConnection goes on to execute(), which connects again when the driver
\* does not report connected; execute() goes on to driver.execute, which
\* throws when this.pool is null.
PgConnectSettles(i, ok) ==
  /\ i \in DOMAIN pgCalls
  /\ pgCalls[i].pc = "connect"
  /\ IF ~ok
     THEN /\ pgCalls' = [pgCalls EXCEPT ![i].pc = "done"]
          /\ lastOp' = [NoOp EXCEPT !.op = pgCalls[i].kind, !.id = i,
                                    !.outcome = "failed"]
          /\ UNCHANGED <<pgPools, pgPool>>
     ELSE IF pgCalls[i].kind = "testConnection" /\ ~PgIsConnected(pgPools, pgPool)
     THEN /\ Len(pgPools) < MaxPools
          /\ pgPools' = PgDriverConnect(pgPools, pgPool)[1]
          /\ pgPool' = PgDriverConnect(pgPools, pgPool)[2]
          /\ pgCalls' = [pgCalls EXCEPT ![i].pool = PgDriverConnect(pgPools, pgPool)[2]]
          /\ lastOp' = [NoOp EXCEPT !.op = "testConnection", !.id = i,
                                    !.outcome = "connecting"]
     ELSE IF pgPool = 0
     THEN /\ pgCalls' = [pgCalls EXCEPT ![i].pc = "done"]
          /\ lastOp' = [NoOp EXCEPT !.op = pgCalls[i].kind, !.id = i,
                                    !.outcome = "failed"]
          /\ UNCHANGED <<pgPools, pgPool>>
     ELSE /\ pgCalls' = [pgCalls EXCEPT ![i].pc = "query", ![i].pool = pgPool]
          /\ lastOp' = [NoOp EXCEPT !.op = pgCalls[i].kind, !.id = i,
                                    !.outcome = "querying"]
          /\ UNCHANGED <<pgPools, pgPool>>
  /\ UNCHANGED pgFrame

\* pool.query settles for call i, with rows or rejected.
PgQuerySettles(i, ok) ==
  /\ i \in DOMAIN pgCalls
  /\ pgCalls[i].pc = "query"
  /\ pgCalls' = [pgCalls EXCEPT ![i].pc = "done"]
  /\ lastOp' = [NoOp EXCEPT !.op = pgCalls[i].kind, !.id = i,
                            !.outcome = IF ok THEN "succeeded" ELSE "failed"]
  /\ UNCHANGED <<pgPools, pgPool, pgFrame>>

\* SqlService.disconnect is called (configure() and the shutdown handlers do):
\* PostgresDriver.disconnect calls end() on the pool it holds and waits; pg
\* rejects end() on a pool that is already ending.
PgDisconnect ==
  /\ Len(pgCalls) < MaxPgCalls
  /\ IF pgPool = 0
     THEN /\ pgCalls' = Append(pgCalls, PgCall("disconnect", "done", 0, FALSE))
          /\ lastOp' = [NoOp EXCEPT !.op = "disconnect", !.id = Len(pgCalls) + 1,
                                    !.outcome = "no pool"]
          /\ UNCHANGED pgPools
     ELSE IF pgPools[pgPool] # "open"
     THEN /\ pgCalls' = Append(pgCalls, PgCall("disconnect", "done", pgPool, FALSE))
          /\ lastOp' = [NoOp EXCEPT !.op = "disconnect", !.id = Len(pgCalls) + 1,
                                    !.outcome = "rejected"]
          /\ UNCHANGED pgPools
     ELSE /\ pgPools' = [pgPools EXCEPT ![pgPool] = "ending"]
          /\ pgCalls' = Append(pgCalls, PgCall("disconnect", "end", pgPool, FALSE))
          /\ lastOp' = [NoOp EXCEPT !.op = "disconnect", !.id = Len(pgCalls) + 1,
                                    !.outcome = "ending"]
  /\ UNCHANGED <<pgPool, pgFrame>>

\* pool.end() settles for disconnect call i: this.pool = null, whatever
\* this.pool is by now.
PgEndSettles(i) ==
  /\ i \in DOMAIN pgCalls
  /\ pgCalls[i].pc = "end"
  /\ pgPools' = [pgPools EXCEPT ![pgCalls[i].pool] = "ended"]
  /\ pgPool' = 0
  /\ pgCalls' = [pgCalls EXCEPT ![i].pc = "done"]
  /\ lastOp' = [NoOp EXCEPT !.op = "disconnect", !.id = i, !.outcome = "ended"]
  /\ UNCHANGED pgFrame

NextPools ==
  \/ PgTestConnection
  \/ PgExecute
  \/ \E i \in 1..MaxPgCalls, ok \in BOOLEAN : PgConnectSettles(i, ok)
  \/ \E i \in 1..MaxPgCalls, ok \in BOOLEAN : PgQuerySettles(i, ok)
  \/ PgDisconnect
  \/ \E i \in 1..MaxPgCalls : PgEndSettles(i)

SpecPools == InitPools /\ [][NextPools]_vars

\* The pools that were opened, never had end() called on them and are not
\* the one the driver holds: nothing refers to them any more.
LeakedPools == {k \in DOMAIN pgPools : pgPools[k] = "open" /\ k # pgPool}

\* The step just taken called driver.connect.
PgConnecting == lastOp'.op \in {"testConnection", "execute"} /\ lastOp'.outcome = "connecting"

\* Every call of driver.connect constructs a pool and makes it the driver's
\* pool without calling end() on any pool; end() is called by disconnect()
\* only, on the pool held at that moment; a pool that is open and not held
\* stays so for good.
PoolsAreNeverClosedByConnect ==
  /\ [][PgConnecting =>
          /\ pgPools' = Append(pgPools, "open")
          /\ pgPool' = Len(pgPools')
          /\ pgPool' # pgPool]_vars
  /\ [][\A k \in DOMAIN pgPools :
          pgPools'[k] # pgPools[k] =>
            /\ lastOp'.op = "disconnect"
            /\ pgPools[k] = "open" => (k = pgPool /\ pgPools'[k] = "ending")]_vars
  /\ [][\A k \in LeakedPools : k \in LeakedPools']_vars
  /\ [][(lastOp'.op = "testConnection" /\ lastOp'.outcome = "connecting"
          /\ PgIsConnected(pgPools, pgPool)) => pgPool \in LeakedPools']_vars

\* Two execute() calls that ran at the same time and both found the driver
\* not connected: <<earlier, later>>.
RacingExecutes ==
  {<<i, j>> \in (DOMAIN pgCalls) \X (DOMAIN pgCalls) :
     /\ pgCalls[j].kind = "execute" /\ pgCalls[j].opened
     /\ pgCalls[i].kind = "execute" /\ pgCalls[i].opened
     /\ i \in pgCalls[j].overlaps}

\* C40 as stated: connect() and testConnection() open a pool without closing
\* the one held, and after two concurrent execute() calls that both found the
\* driver not connected the earlier call's pool is overwritten and never
\* ended.
C40_AsClaimed ==
  /\ PoolsAreNeverClosedByConnect
  /\ [](\A r \in RacingExecutes :
          pgPools[pgCalls[r[1]].made] = "open" /\ pgCalls[r[1]].made # pgPool)

\* C40, amended: connect() and testConnection() open a pool without closing
\* the one the driver holds, so every testConnection() on a driver that holds
\* an open pool leaves that pool open and unreferenced for good, and the
\* number of such pools grows with every further call. execute() opens a pool
\* only when the driver holds no pool or one that end() was called on: an
\* execute() call that starts while the driver holds an open pool, such as
\* the one another execute() is still connecting, opens none. Two execute()
\* calls running at the same time both find the driver not connected only
\* when a disconnect() that called end() on a pool started before the later
\* one; the pool the later call replaces is then none or one that end() was
\* called on, and the earlier call's pool is no longer the driver's open pool:
\* it was ended by that disconnect() or dropped by its "this.pool = null".
C40_Amended ==
  /\ PoolsAreNeverClosedByConnect
  /\ [][(lastOp'.op = "execute" /\ lastOp'.outcome = "connecting") =>
          ~PgIsConnected(pgPools, pgPool)]_vars
  /\ [][(lastOp'.op = "execute" /\ Len(pgCalls') = Len(pgCalls) + 1
          /\ PgIsConnected(pgPools, pgPool)) =>
          (lastOp'.outcome = "querying" /\ UNCHANGED <<pgPools, pgPool>>)]_vars
  /\ [](\A r \in RacingExecutes :
          /\ \E d \in 1..(r[2] - 1) :
               pgCalls[d].kind = "disconnect" /\ pgCalls[d].pool # 0
          /\ pgCalls[r[2]].found # 0 =>
               pgPools[pgCalls[r[2]].found] \in {"ending", "ended"}
          /\ ~(pgPool = pgCalls[r[1]].made /\ PgIsConnected(pgPools, pgPool)))

\* Three testConnection() calls have left two open pools that nothing refers
\* to, next to the one the driver holds.
C40_Witness ==
  /\ Len(pgCalls) = 3
  /\ \A i \in DOMAIN pgCalls : pgCalls[i].kind = "testConnection"
  /\ Cardinality(LeakedPools) = 2
  /\ PgIsConnected(pgPools, pgPool)

=============================================================================
